---------------------------- MODULE Spec2Model ----------------------------
(***************************************************************************)
(* A model of the auto-discovery library: the service registry             *)
(* (src/src/registry.rs), the mDNS engine (src/src/protocols/mdns.rs), the *)
(* SSDP engine and its listener (src/src/protocols/upnp.rs), the protocol  *)
(* manager (src/src/protocols/mod.rs) and the ServiceDiscovery front       *)
(* (src/src/discovery.rs, src/src/config.rs).  The history variables       *)
(* follow the calls made on the registry, on the engines and on the front  *)
(* themselves.  The calls of tasks that share the SSDP engine, the         *)
(* listener's response loop and the manager's loop over its engines are    *)
(* also followed from await to await.                                      *)
(*                                                                         *)
(* Strings are sequences of one-character strings, so that split, join,    *)
(* prefix, suffix and substring tests are computed as the code computes    *)
(* them.  An Option<T> is a sequence of length 0 (None) or 1 (Some).       *)
(* Instants and Durations are natural numbers of one clock unit.           *)
(***************************************************************************)
EXTENDS Integers, Sequences, FiniteSets, TLC

VARIABLES
    services,      \* ServiceRegistry.services: composite key -> ServiceEntry
    now,           \* the monotonic clock read by Instant::now()
    ret,           \* the last call and what it returned
    added,         \* history: key -> [t0, ttl, service] of the last Ok add_discovered_service,
                   \* kept until a later call replaces or unregisters the key's entry
    daemon,        \* the mDNS daemon: full service name -> the info registered with it
    mreg,          \* history: the services whose mDNS register_service returned Ok, no
                   \* unregister_service of the same name, type and port having returned Ok since
    munreg,        \* history: the services whose mDNS unregister_service returned Ok, no
                   \* register_service of the same name, type and port having returned Ok since
    registered_services,   \* SsdpProtocol.registered_services: id -> ServiceInfo
    lastCall,      \* history: id -> the last SSDP register/unregister call on the id
    listener_handle,   \* SsdpProtocol.listener_handle: is it Some
    shutdown_tx,   \* SsdpProtocol.shutdown_tx: "None", "Some", or "Dropped" with the engine
    listener,      \* the listener task: where it is, or how it ended
    inbox,         \* the datagrams queued at the listener's socket
    protocols,     \* ProtocolManager.protocols: None before ProtocolManager::new, then
                   \* Some(the protocol types that have an engine)
    discovery,     \* the ServiceDiscovery instance: None before ServiceDiscovery::new, then
                   \* Some([config, discovered_services, registered_services])
    sdreg,         \* history: the services whose ServiceDiscovery::register_service returned
                   \* Ok, no unregister_service of the same service having returned Ok since
    tasks,         \* the tasks that call the shared SSDP engine: task -> where it is in
                   \* its register_service or unregister_service call, and what that returned
    lock,          \* the RwLock of SsdpProtocol.registered_services: its writer and readers
    responder,     \* the listener's M-SEARCH handling: where it is in its response loop
    fanout         \* the ProtocolManager::discover_services call in progress: None, or
                   \* Some(where its loop over the engines is)

registryVars == <<services, now, added>>
mdnsVars == <<daemon, mreg, munreg>>
listenerVars == <<listener_handle, shutdown_tx, listener, inbox>>
ssdpVars == <<registered_services, lastCall, listenerVars>>
managerVars == <<protocols, discovery, sdreg>>
taskVars == <<tasks, lock, responder, fanout>>
vars == <<registryVars, ret, mdnsVars, ssdpVars, managerVars, taskVars>>

---------------------------------------------------------------------------
(* Bounds of the model *)

\* The tasks that share one SSDP engine
NTasks == 2

\* The clock runs from 0 to MaxTime.
MaxTime == 3

\* ServiceRegistry.max_services of the registry under check (with_settings).
MaxServices == 2

\* ServiceRegistry.default_ttl of the registry under check (with_settings), in clock units.
DefaultTtl == 2

---------------------------------------------------------------------------
(* Strings *)

\* str::starts_with
StartsWith(s, p) == Len(s) >= Len(p) /\ SubSeq(s, 1, Len(p)) = p

\* str::ends_with
EndsWith(s, p) == Len(s) >= Len(p) /\ SubSeq(s, Len(s) - Len(p) + 1, Len(s)) = p

\* str::contains
Contains(s, p) == \E i \in 1..(Len(s) - Len(p) + 1) : SubSeq(s, i, i + Len(p) - 1) = p

\* str::find(ch) from position i on: the first position of ch, 0 if there is none
RECURSIVE Find1(_, _, _)
Find1(s, ch, i) ==
    IF i > Len(s) THEN 0
    ELSE IF s[i] = ch THEN i
    ELSE Find1(s, ch, i + 1)

\* str::split(ch).collect(): the segments between the occurrences of ch
RECURSIVE Split(_, _)
Split(s, ch) ==
    LET i == Find1(s, ch, 1) IN
    IF i = 0 THEN <<s>>
    ELSE <<SubSeq(s, 1, i - 1)>> \o Split(SubSeq(s, i + 1, Len(s)), ch)

\* [&str]::join(ch)
RECURSIVE Join(_, _)
Join(parts, ch) ==
    IF Len(parts) = 0 THEN <<>>
    ELSE IF Len(parts) = 1 THEN parts[1]
    ELSE parts[1] \o <<ch>> \o Join(Tail(parts), ch)

\* str::lines: the segments between line feeds, each without one trailing carriage
\* return, the empty segment after a final line feed left out
Lines(s) ==
    LET parts == Split(s, "\n")
        kept == IF Len(parts[Len(parts)]) = 0 THEN SubSeq(parts, 1, Len(parts) - 1)
                ELSE parts
    IN  [i \in 1..Len(kept) |->
            IF EndsWith(kept[i], <<"\r">>) THEN SubSeq(kept[i], 1, Len(kept[i]) - 1)
            ELSE kept[i]]

\* str::strip_prefix: Some(rest) when s starts with p, character for character
StripPrefix(s, p) ==
    IF StartsWith(s, p) THEN <<SubSeq(s, Len(p) + 1, Len(s))>> ELSE <<>>

WhiteSpace == {" ", "\t", "\r", "\n"}

\* str::trim
RECURSIVE Trim(_)
Trim(s) ==
    IF Len(s) = 0 THEN s
    ELSE IF s[1] \in WhiteSpace THEN Trim(Tail(s))
    ELSE IF s[Len(s)] \in WhiteSpace THEN Trim(SubSeq(s, 1, Len(s) - 1))
    ELSE s

\* str::split(p).next(): the text before the first occurrence of p, all of it if none
SplitFirst(s, p) ==
    IF Contains(s, p)
    THEN LET i == CHOOSE j \in 1..(Len(s) - Len(p) + 1) :
                      /\ SubSeq(s, j, j + Len(p) - 1) = p
                      /\ \A k \in 1..(j - 1) : SubSeq(s, k, k + Len(p) - 1) # p
         IN  SubSeq(s, 1, i - 1)
    ELSE s

DigitChar == <<"0", "1", "2", "3", "4", "5", "6", "7", "8", "9">>

\* The decimal text of an unsigned integer, as Display for u16 writes it.
RECURSIVE FormatNat(_)
FormatNat(n) ==
    IF n < 10 THEN <<DigitChar[n + 1]>>
    ELSE FormatNat(n \div 10) \o <<DigitChar[(n % 10) + 1]>>

DotLocalDot == <<".", "l", "o", "c", "a", "l", ".">>

---------------------------------------------------------------------------
(* types.rs: ServiceType and ProtocolType *)

ProtocolType == {"Mdns", "DnsSd", "Upnp"}

\* ServiceType::new: Ok(ServiceType) or Err(InvalidServiceInfo)
ServiceTypeNew(service_type_str) ==
    IF Len(service_type_str) = 0 THEN [ok |-> FALSE]
    ELSE IF StartsWith(service_type_str, <<"u", "r", "n", ":">>)
    THEN [ok |-> TRUE, service_name |-> service_type_str, protocol |-> <<>>, domain |-> <<>>]
    ELSE LET parts == Split(service_type_str, ".") IN
         IF Len(parts) < 2 THEN [ok |-> FALSE]
         ELSE IF ~StartsWith(parts[2], <<"_">>) THEN [ok |-> FALSE]
         ELSE [ok |-> TRUE,
               service_name |-> IF StartsWith(parts[1], <<"_">>) THEN parts[1]
                                ELSE <<"_">> \o parts[1],
               protocol |-> <<".">> \o parts[2],
               domain |-> IF Len(parts) > 2
                          THEN <<Join(SubSeq(parts, 3, Len(parts)), ".")>>
                          ELSE <<>>]

\* a Display that leaves the domain out
TypeToStringNoDomain(t) == t.service_name \o t.protocol

\* impl Display for ServiceType
TypeToString(t) ==
    IF Len(t.domain) = 1
    THEN t.service_name \o t.protocol \o <<".">> \o t.domain[1]
    ELSE t.service_name \o t.protocol

---------------------------------------------------------------------------
(* service.rs: ServiceInfo *)

\* ServiceInfo::new; id stands for the Uuid::new_v4() drawn by the call.
ServiceInfoNew(id, name, service_type, port) ==
    LET t == ServiceTypeNew(service_type) IN
    IF ~t.ok THEN [ok |-> FALSE]
    ELSE [ok |-> TRUE,
          id |-> id,
          name |-> name,
          service_type |-> [service_name |-> t.service_name,
                            protocol |-> t.protocol,
                            domain |-> t.domain],
          port |-> port,
          protocol_type |-> "Mdns"]

\* The Ok value of ServiceInfo::new
Svc(id, name, service_type, port) ==
    LET r == ServiceInfoNew(id, name, service_type, port) IN
    [id |-> r.id, name |-> r.name, service_type |-> r.service_type,
     port |-> r.port, protocol_type |-> r.protocol_type]

\* The ids of the services built from what the network delivered start here: Uuid::new_v4()
\* never draws the id of a service that exists.
NetIdBase == 100

---------------------------------------------------------------------------
(* registry.rs: ServiceEntry *)

\* ServiceEntry::new_local at Instant t
NewLocal(service, protocol, t) ==
    [service |-> service, timestamp |-> t, is_local |-> TRUE, ttl |-> <<>>,
     protocol |-> protocol]

\* new_discovered that drops the ttl it is given (the entry never expires)
NewDiscoveredNoTtl(service, protocol, ttl, t) ==
    [service |-> service, timestamp |-> t, is_local |-> FALSE, ttl |-> <<>>,
     protocol |-> protocol]

\* ServiceEntry::new_discovered at Instant t
NewDiscovered(service, protocol, ttl, t) ==
    [service |-> service, timestamp |-> t, is_local |-> FALSE, ttl |-> ttl,
     protocol |-> protocol]

\* ServiceEntry::is_expired at Instant t
IsExpired(entry, t) ==
    IF Len(entry.ttl) = 1 THEN t - entry.timestamp > entry.ttl[1] ELSE FALSE

\* ServiceEntry::service_id: format!("{}:{}:{}", name, service_type, port)
ServiceId(service) ==
    service.name \o <<":">> \o TypeToString(service.service_type) \o <<":">>
        \o FormatNat(service.port)


\* HashMap::insert
MapPut(m, k, v) == [x \in (DOMAIN m) \cup {k} |-> IF x = k THEN v ELSE m[x]]

\* HashMap::remove
MapRemove(m, k) == [x \in (DOMAIN m) \ {k} |-> m[x]]

\* HashMap::new
EmptyMap == [x \in {} |-> 0]

---------------------------------------------------------------------------
(* registry.rs: ServiceFilter *)

\* ServiceFilter::new (Default): no predicate set
FilterNew ==
    [service_types |-> <<>>, protocols |-> <<>>, name_contains |-> <<>>,
     local_only |-> FALSE, discovered_only |-> FALSE, max_age |-> <<>>]

\* matches with the name test a prefix test instead of a substring test
MatchesNamePrefix(filter, entry, t) ==
    IF Len(entry.ttl) = 1 /\ t - entry.timestamp > entry.ttl[1] THEN FALSE
    ELSE IF Len(filter.max_age) = 1 /\ t - entry.timestamp > filter.max_age[1] THEN FALSE
    ELSE IF filter.local_only /\ ~entry.is_local THEN FALSE
    ELSE IF filter.discovered_only /\ entry.is_local THEN FALSE
    ELSE IF Len(filter.service_types) = 1
            /\ ~(\E i \in 1..Len(filter.service_types[1]) :
                    TypeToString(filter.service_types[1][i])
                        = TypeToString(entry.service.service_type))
         THEN FALSE
    ELSE IF Len(filter.protocols) = 1
            /\ ~(\E i \in 1..Len(filter.protocols[1]) :
                    filter.protocols[1][i] = entry.protocol)
         THEN FALSE
    ELSE IF Len(filter.name_contains) = 1
            /\ ~StartsWith(entry.service.name, filter.name_contains[1])
         THEN FALSE
    ELSE TRUE

\* ServiceFilter::matches at Instant t
Matches(filter, entry, t) ==
    IF IsExpired(entry, t) THEN FALSE
    ELSE IF Len(filter.max_age) = 1 /\ t - entry.timestamp > filter.max_age[1] THEN FALSE
    ELSE IF filter.local_only /\ ~entry.is_local THEN FALSE
    ELSE IF filter.discovered_only /\ entry.is_local THEN FALSE
    ELSE IF Len(filter.service_types) = 1
            /\ ~(\E i \in 1..Len(filter.service_types[1]) :
                    TypeToString(filter.service_types[1][i])
                        = TypeToString(entry.service.service_type))
         THEN FALSE
    ELSE IF Len(filter.protocols) = 1
            /\ ~(\E i \in 1..Len(filter.protocols[1]) :
                    filter.protocols[1][i] = entry.protocol)
         THEN FALSE
    ELSE IF Len(filter.name_contains) = 1
            /\ ~Contains(entry.service.name, filter.name_contains[1])
         THEN FALSE
    ELSE TRUE

---------------------------------------------------------------------------
(* registry.rs: ServiceRegistry, as functions of the map and the clock *)

\* ServiceRegistry::find_services: the services collected (a Vec in HashMap order;
\* entries under distinct keys hold distinct services)
FindServices(svcs, filter, t) ==
    {svcs[k].service : k \in {x \in DOMAIN svcs : Matches(filter, svcs[x], t)}}

\* ServiceRegistry::get_local_services
GetLocalServices(svcs, t) ==
    FindServices(svcs, [FilterNew EXCEPT !.local_only = TRUE], t)

\* ServiceRegistry::get_discovered_services
GetDiscoveredServices(svcs, t) ==
    FindServices(svcs, [FilterNew EXCEPT !.discovered_only = TRUE], t)

\* ServiceRegistry::register_local_service
RegisterLocalService(svcs, service, protocol, t) ==
    [ok |-> TRUE,
     services |-> MapPut(svcs, ServiceId(service), NewLocal(service, protocol, t))]

\* unregister_local_service that answers Ok for a key it does not hold
UnregisterLocalServiceLenient(svcs, service_id) ==
    [ok |-> TRUE, services |-> MapRemove(svcs, service_id)]

\* ServiceRegistry::unregister_local_service
UnregisterLocalService(svcs, service_id) ==
    IF service_id \in DOMAIN svcs
    THEN [ok |-> TRUE, services |-> MapRemove(svcs, service_id)]
    ELSE [ok |-> FALSE, err |-> "ServiceNotFound", services |-> svcs]

\* find_oldest_expired without the min_by_key: any expired key
FindOldestExpiredAny(svcs, t) ==
    {k \in DOMAIN svcs : Len(svcs[k].ttl) = 1 /\ t - svcs[k].timestamp > svcs[k].ttl[1]}

\* ServiceRegistry::find_oldest_expired: the keys min_by_key may return (the first
\* minimum in HashMap order, so any expired key of least timestamp); {} is None
FindOldestExpired(svcs, t) ==
    {k \in DOMAIN svcs :
        /\ IsExpired(svcs[k], t)
        /\ \A j \in DOMAIN svcs :
              IsExpired(svcs[j], t) => svcs[k].timestamp <= svcs[j].timestamp}

\* ServiceRegistry::add_discovered_service: the possible outcomes; evicted records
\* the key removed to make room (None when nothing was removed)
AddDiscoveredService(svcs, service, protocol, ttl, t) ==
    LET ttl1 == IF Len(ttl) = 1 THEN ttl[1] ELSE DefaultTtl
        entry == NewDiscovered(service, protocol, <<ttl1>>, t)
        service_id == ServiceId(service)
    IN  IF Cardinality(DOMAIN svcs) >= MaxServices
        THEN IF FindOldestExpired(svcs, t) # {}
             THEN {[ok |-> TRUE, evicted |-> <<oldest_expired>>,
                    services |-> MapPut(MapRemove(svcs, oldest_expired), service_id, entry)] :
                        oldest_expired \in FindOldestExpired(svcs, t)}
             ELSE {[ok |-> FALSE, err |-> "Configuration", services |-> svcs]}
        ELSE {[ok |-> TRUE, evicted |-> <<>>, services |-> MapPut(svcs, service_id, entry)]}

\* cleanup_expired that retains the local entries only
CleanupExpiredAllDiscovered(svcs, t) ==
    LET kept == {k \in DOMAIN svcs : svcs[k].is_local} IN
    [services |-> [k \in kept |-> svcs[k]],
     removed_count |-> Cardinality(DOMAIN svcs) - Cardinality(kept)]

\* ServiceRegistry::cleanup_expired
CleanupExpired(svcs, t) ==
    LET kept == {k \in DOMAIN svcs : ~IsExpired(svcs[k], t)} IN
    [services |-> [k \in kept |-> svcs[k]],
     removed_count |-> Cardinality(DOMAIN svcs) - Cardinality(kept)]

\* stats whose expired count is the count of the discovered entries
StatsExpiredAsDiscovered(svcs, t) ==
    [total_services |-> Cardinality(DOMAIN svcs),
     local_services |-> Cardinality({k \in DOMAIN svcs : svcs[k].is_local}),
     discovered_services |-> Cardinality({k \in DOMAIN svcs : ~svcs[k].is_local}),
     expired_services |-> Cardinality({k \in DOMAIN svcs : ~svcs[k].is_local})]

\* ServiceRegistry::stats: the three counters of the loop and services.len()
Stats(svcs, t) ==
    [total_services |-> Cardinality(DOMAIN svcs),
     local_services |-> Cardinality({k \in DOMAIN svcs : svcs[k].is_local}),
     discovered_services |-> Cardinality({k \in DOMAIN svcs : ~svcs[k].is_local}),
     expired_services |-> Cardinality({k \in DOMAIN svcs : IsExpired(svcs[k], t)})]

---------------------------------------------------------------------------
(* The inputs of the registry's calls *)

NameA == <<"a">>
NameAB == <<"a", "b">>
NameB == <<"b">>
TypeH == <<"_", "h", ".", "_", "t">>
TypeS == <<"_", "s", ".", "_", "t">>
TypeUrn == <<"u", "r", "n", ":", "x">>

\* Two services under one composite key (two ServiceInfo::new calls with the same
\* name, type and port draw two ids), and two under other keys.
RegistryServices ==
    {Svc(1, NameA, TypeH, 80), Svc(2, NameA, TypeH, 80),
     Svc(3, NameAB, TypeS, 80), Svc(4, NameB, TypeH, 81)}

RegistryKeys == {ServiceId(s) : s \in RegistryServices}

\* The (service, protocol) arguments of register_local_service
RegisterArgs ==
    {<<Svc(1, NameA, TypeH, 80), "Mdns">>,
     <<Svc(3, NameAB, TypeS, 80), "Mdns">>,
     <<Svc(4, NameB, TypeH, 81), "Upnp">>}

\* The (service, protocol, ttl) arguments of add_discovered_service; the ttl is
\* None or Some(1)
AddArgs ==
    {<<Svc(2, NameA, TypeH, 80), "Upnp", <<1>>>>,
     <<Svc(3, NameAB, TypeS, 80), "Mdns", <<>>>>,
     <<Svc(4, NameB, TypeH, 81), "Upnp", <<1>>>>}

TypeOf(s) == [service_name |-> ServiceTypeNew(s).service_name,
              protocol |-> ServiceTypeNew(s).protocol,
              domain |-> ServiceTypeNew(s).domain]

\* The filters queried: each predicate alone, and combinations
Filters ==
    {FilterNew,
     [FilterNew EXCEPT !.local_only = TRUE],
     [FilterNew EXCEPT !.discovered_only = TRUE],
     [FilterNew EXCEPT !.local_only = TRUE, !.discovered_only = TRUE],
     [FilterNew EXCEPT !.service_types = <<<<TypeOf(TypeH)>>>>],
     [FilterNew EXCEPT !.service_types = <<<<TypeOf(TypeS), TypeOf(TypeH)>>>>],
     [FilterNew EXCEPT !.service_types = <<<<>>>>],
     [FilterNew EXCEPT !.protocols = <<<<"Upnp">>>>],
     [FilterNew EXCEPT !.protocols = <<<<"Mdns", "DnsSd">>>>, !.discovered_only = TRUE],
     [FilterNew EXCEPT !.name_contains = <<NameA>>],
     [FilterNew EXCEPT !.name_contains = <<NameB>>, !.max_age = <<1>>],
     [FilterNew EXCEPT !.max_age = <<0>>],
     [FilterNew EXCEPT !.service_types = <<<<TypeOf(TypeH)>>>>,
                       !.name_contains = <<NameB>>, !.local_only = TRUE]}

---------------------------------------------------------------------------
(* The registry as a state machine: one action per call *)

Init ==
    /\ services = EmptyMap
    /\ now = 0
    /\ ret = [op |-> "new"]
    /\ added = EmptyMap
    /\ daemon = EmptyMap
    /\ mreg = {}
    /\ munreg = {}
    /\ registered_services = EmptyMap
    /\ lastCall = EmptyMap
    /\ listener_handle = FALSE
    /\ shutdown_tx = "None"
    /\ listener = "none"
    /\ inbox = <<>>
    /\ protocols = <<>>
    /\ discovery = <<>>
    /\ sdreg = {}
    /\ tasks = [i \in 1..NTasks |-> [pc |-> "init"]]
    /\ lock = [writer |-> 0, readers |-> {}]
    /\ responder = [pc |-> "recv"]
    /\ fanout = <<>>

\* Time passes.
Tick ==
    /\ now < MaxTime
    /\ now' = now + 1
    /\ ret' = [op |-> "tick"]
    /\ UNCHANGED <<services, added, mdnsVars, ssdpVars, managerVars, taskVars>>

\* registry.register_local_service(service, protocol)
RegisterLocal(service, protocol) ==
    LET r == RegisterLocalService(services, service, protocol, now)
        key == ServiceId(service)
    IN  /\ services' = r.services
        /\ ret' = [op |-> "register_local_service", key |-> key, service |-> service,
                   ok |-> r.ok]
        /\ added' = MapRemove(added, key)
        /\ UNCHANGED <<now, mdnsVars, ssdpVars, managerVars, taskVars>>

\* registry.unregister_local_service(service_id)
UnregisterLocal(service_id) ==
    LET r == UnregisterLocalService(services, service_id) IN
        /\ services' = r.services
        /\ ret' = IF r.ok
                  THEN [op |-> "unregister_local_service", key |-> service_id, ok |-> TRUE]
                  ELSE [op |-> "unregister_local_service", key |-> service_id, ok |-> FALSE,
                        err |-> r.err]
        /\ added' = IF r.ok THEN MapRemove(added, service_id) ELSE added
        /\ UNCHANGED <<now, mdnsVars, ssdpVars, managerVars, taskVars>>

\* registry.add_discovered_service(service, protocol, ttl)
AddDiscovered(service, protocol, ttl) ==
    \E r \in AddDiscoveredService(services, service, protocol, ttl, now) :
        LET key == ServiceId(service) IN
        /\ services' = r.services
        /\ ret' = IF r.ok
                  THEN [op |-> "add_discovered_service", key |-> key, service |-> service,
                        ok |-> TRUE, evicted |-> r.evicted]
                  ELSE [op |-> "add_discovered_service", key |-> key, service |-> service,
                        ok |-> FALSE, err |-> r.err]
        /\ added' = IF r.ok
                    THEN MapPut(added, key,
                                [t0 |-> now,
                                 ttl |-> IF Len(ttl) = 1 THEN ttl[1] ELSE DefaultTtl,
                                 service |-> service])
                    ELSE added
        /\ UNCHANGED <<now, mdnsVars, ssdpVars, managerVars, taskVars>>

\* registry.cleanup_expired()
Cleanup ==
    LET r == CleanupExpired(services, now) IN
        /\ services' = r.services
        /\ ret' = [op |-> "cleanup_expired", removed_count |-> r.removed_count]
        /\ UNCHANGED <<now, added, mdnsVars, ssdpVars, managerVars, taskVars>>

\* registry.find_services(filter)
Find(filter) ==
    /\ ret' = [op |-> "find_services", filter |-> filter,
               out |-> FindServices(services, filter, now)]
    /\ UNCHANGED <<services, now, added, mdnsVars, ssdpVars, managerVars, taskVars>>

\* registry.get_local_services()
GetLocal ==
    /\ ret' = [op |-> "get_local_services", out |-> GetLocalServices(services, now)]
    /\ UNCHANGED <<services, now, added, mdnsVars, ssdpVars, managerVars, taskVars>>

Next ==
    \/ Tick
    \/ \E a \in RegisterArgs : RegisterLocal(a[1], a[2])
    \/ \E k \in RegistryKeys : UnregisterLocal(k)
    \/ \E a \in AddArgs : AddDiscovered(a[1], a[2], a[3])
    \/ Cleanup
    \/ \E f \in Filters : Find(f)
    \/ GetLocal

Spec == Init /\ [][Next]_vars

\* registry.stats()
StatsCall ==
    /\ ret' = [op |-> "stats", out |-> Stats(services, now)]
    /\ UNCHANGED <<services, now, added, mdnsVars, ssdpVars, managerVars, taskVars>>

NextStats ==
    \/ Tick
    \/ \E a \in RegisterArgs : RegisterLocal(a[1], a[2])
    \/ \E k \in RegistryKeys : UnregisterLocal(k)
    \/ \E a \in AddArgs : AddDiscovered(a[1], a[2], a[3])
    \/ Cleanup
    \/ StatsCall

SpecStats == Init /\ [][NextStats]_vars

---------------------------------------------------------------------------
(* types.rs and service.rs called on their own: ServiceType::new, its Display, *)
(* ServiceInfo::new                                                            *)

\* The pieces the service type strings are made of
TypeTokens == {<<"_">>, <<".">>, <<"a">>, <<"u", "r", "n", ":">>}

\* The strings of at most this many pieces are handed to ServiceType::new.
MaxTokens == 4

RECURSIVE TokenStrings(_)
TokenStrings(n) ==
    IF n = 0 THEN {<<>>}
    ELSE LET shorter == TokenStrings(n - 1) IN
         shorter \cup {s \o t : s \in shorter, t \in TypeTokens}

\* The names and ports handed to ServiceInfo::new, which takes a u16
InfoNames == {<<>>, NameA}
InfoPorts == {0, 1, 80, 65535}

\* ServiceType::new(x)
ServiceTypeNewCall(x) ==
    /\ ret' = [op |-> "service_type_new", arg |-> x, res |-> ServiceTypeNew(x)]
    /\ UNCHANGED <<registryVars, mdnsVars, ssdpVars, managerVars, taskVars>>

\* value.to_string() of the ServiceType the last call returned
ToStringCall ==
    /\ ret.op = "service_type_new" /\ ret.res.ok
    /\ ret' = [op |-> "to_string", arg |-> ret.arg, value |-> ret.res,
               text |-> TypeToString(ret.res)]
    /\ UNCHANGED <<registryVars, mdnsVars, ssdpVars, managerVars, taskVars>>

\* ServiceInfo::new(name, service_type, port, None)
ServiceInfoNewCall(name, service_type, port) ==
    /\ ret' = [op |-> "service_info_new", name |-> name, service_type |-> service_type,
               port |-> port, res |-> ServiceInfoNew(1, name, service_type, port)]
    /\ UNCHANGED <<registryVars, mdnsVars, ssdpVars, managerVars, taskVars>>

NextTypes ==
    \/ \E x \in TokenStrings(MaxTokens) : ServiceTypeNewCall(x)
    \/ ToStringCall
    \/ \E name \in InfoNames, service_type \in {<<>>, TypeH, TypeUrn}, port \in InfoPorts :
           ServiceInfoNewCall(name, service_type, port)

SpecTypes == Init /\ [][NextTypes]_vars

---------------------------------------------------------------------------

(* protocols/upnp.rs: SsdpProtocol, the registered-services table *)

\* unregister_service that removes the entry only once the byebye has been sent
SsdpUnregisterAfterSend(table, service, send_ok) ==
    LET service_id == service.id IN
    IF service_id \in DOMAIN table
    THEN IF send_ok THEN [ok |-> TRUE, table |-> MapRemove(table, service_id)]
         ELSE [ok |-> FALSE, err |-> "Io", table |-> table]
    ELSE [ok |-> TRUE, table |-> table]

\* SsdpProtocol::register_service; send_ok is whether send_announcement returned Ok
SsdpRegisterService(table, service, send_ok) ==
    LET inserted == MapPut(table, service.id, service) IN
    IF send_ok THEN [ok |-> TRUE, table |-> inserted]
    ELSE [ok |-> FALSE, err |-> "Io", table |-> inserted]

\* SsdpProtocol::unregister_service; send_ok is whether send_announcement returned Ok
SsdpUnregisterService(table, service, send_ok) ==
    LET service_id == service.id IN
    IF service_id \in DOMAIN table
    THEN IF send_ok THEN [ok |-> TRUE, table |-> MapRemove(table, service_id)]
         ELSE [ok |-> FALSE, err |-> "Io", table |-> MapRemove(table, service_id)]
    ELSE [ok |-> TRUE, table |-> table]

\* SsdpProtocol::verify_service
SsdpVerifyService(table, service) == service.id \in DOMAIN table

\* "upnp._tcp", the type given to every service parsed from a response
TypeUpnpTcp == <<"u", "p", "n", "p", ".", "_", "t", "c", "p">>

\* The value the header loop of parse_service_from_response leaves for a prefix: the
\* rest of the last line that starts with these very characters, trimmed; None if no
\* line does
RECURSIVE LastHeader(_, _)
LastHeader(lines, prefix) ==
    IF Len(lines) = 0 THEN <<>>
    ELSE IF Len(StripPrefix(lines[Len(lines)], prefix)) = 1
    THEN <<Trim(StripPrefix(lines[Len(lines)], prefix)[1])>>
    ELSE LastHeader(SubSeq(lines, 1, Len(lines) - 1), prefix)

\* SsdpProtocol::parse_service_from_response; addr is the datagram's source, id the
\* Uuid::new_v4() drawn by ServiceInfo::new.  Some(service) or None.
ParseServiceFromResponse(response, addr, id) ==
    LET location == LastHeader(Lines(response),
                               <<"L", "O", "C", "A", "T", "I", "O", "N", ":">>)
        usn == LastHeader(Lines(response), <<"U", "S", "N", ":">>)
    IN  IF Len(location) = 1 /\ Len(usn) = 1
        THEN LET service_id == SplitFirst(usn[1], <<":", ":">>)
                 r == ServiceInfoNew(id, service_id, TypeUpnpTcp, addr.port)
             IN  IF r.ok
                 THEN <<[id |-> r.id, name |-> r.name, service_type |-> r.service_type,
                         port |-> r.port, protocol_type |-> r.protocol_type]>>
                 ELSE <<>>
        ELSE <<>>

\* The ids of the services parsed from SSDP responses start here, apart from those
\* the mDNS engine draws.
SsdpIdBase == 200

\* a receive loop that is left at the first datagram that does not parse
RECURSIVE ParseResponsesUntilFailure(_, _)
ParseResponsesUntilFailure(datagrams, first_id) ==
    IF Len(datagrams) = 0 THEN <<>>
    ELSE LET service == ParseServiceFromResponse(datagrams[1].text, datagrams[1].addr,
                                                 first_id)
         IN  IF Len(service) = 0 THEN <<>>
             ELSE service \o ParseResponsesUntilFailure(Tail(datagrams), first_id + 1)

\* The receive loop of discover_services for one search socket: every datagram that
\* arrived before the deadline is parsed, the ones that parse are kept
RECURSIVE ParseResponses(_, _)
ParseResponses(datagrams, first_id) ==
    IF Len(datagrams) = 0 THEN <<>>
    ELSE ParseServiceFromResponse(datagrams[1].text, datagrams[1].addr, first_id)
             \o ParseResponses(Tail(datagrams), first_id + 1)

\* SsdpProtocol::discover_services: one search per requested type, in order; runs[i]
\* is whether send_search_request returned Ok for the i-th type and what its socket
\* received before the deadline or a receive error
RECURSIVE SsdpDiscoverFrom(_, _, _)
SsdpDiscoverFrom(service_types, runs, i) ==
    IF i > Len(service_types) THEN [ok |-> TRUE, out |-> <<>>]
    ELSE IF ~runs[i].ok THEN [ok |-> FALSE, err |-> "Io"]
    ELSE LET rest == SsdpDiscoverFrom(service_types, runs, i + 1) IN
         IF ~rest.ok THEN rest
         ELSE [ok |-> TRUE,
               out |-> ParseResponses(runs[i].datagrams, SsdpIdBase + 10 * i) \o rest.out]

SsdpDiscoverServices(service_types, runs) == SsdpDiscoverFrom(service_types, runs, 1)

\* The services handed to the SSDP engine; the second is the first after
\* with_protocol_type(Upnp), so it carries the same id.
SsdpServices ==
    {Svc(1, NameA, TypeUrn, 80),
     [Svc(1, NameA, TypeUrn, 80) EXCEPT !.protocol_type = "Upnp"],
     Svc(2, NameB, TypeUrn, 80),
     Svc(3, NameAB, TypeH, 81)}

\* a response datagram: "HTTP/1.1 200 OK", LOCATION: l, ST: r, USN: uuid:7::r, CRLF line ends
ResponseText ==
    <<"H", "T", "T", "P", "/", "1", ".", "1", " ", "2", "0", "0", " ", "O", "K", "\r",
      "\n", "L", "O", "C", "A", "T", "I", "O", "N", ":", " ", "l", "\r", "\n", "S", "T",
      ":", " ", "r", "\r", "\n", "U", "S", "N", ":", " ", "u", "u", "i", "d", ":", "7",
      ":", ":", "r", "\r", "\n", "\r", "\n">>

\* a response of another device, USN before LOCATION and no "::" in the USN
ResponseTextOther ==
    <<"H", "T", "T", "P", "/", "1", ".", "1", " ", "2", "0", "0", " ", "O", "K", "\r",
      "\n", "U", "S", "N", ":", " ", "u", "8", "\r", "\n", "L", "O", "C", "A", "T", "I",
      "O", "N", ":", " ", "l", "\r", "\n", "\r", "\n">>

\* a response whose header names are not in capitals
ResponseTextLower ==
    <<"H", "T", "T", "P", "/", "1", ".", "1", " ", "2", "0", "0", " ", "O", "K", "\r",
      "\n", "L", "o", "c", "a", "t", "i", "o", "n", ":", " ", "l", "\r", "\n", "U", "s",
      "n", ":", " ", "u", "u", "i", "d", ":", "9", ":", ":", "r", "\r", "\n", "\r", "\n">>

\* a response without a USN header
ResponseTextNoUsn ==
    <<"H", "T", "T", "P", "/", "1", ".", "1", " ", "2", "0", "0", " ", "O", "K", "\r",
      "\n", "L", "O", "C", "A", "T", "I", "O", "N", ":", " ", "l", "\r", "\n", "\r",
      "\n">>

\* the source address of a datagram
PeerAddr == [ip |-> "192.0.2.5", port |-> 1900]

Datagram(text) == [text |-> text, addr |-> PeerAddr]

\* What one search can meet: the request is not sent, nothing answers, one device
\* answers, several datagrams arrive of which some do not parse
SearchFails == [ok |-> FALSE, datagrams |-> <<>>]
SearchSilent == [ok |-> TRUE, datagrams |-> <<>>]
SearchOne == [ok |-> TRUE, datagrams |-> <<Datagram(ResponseText)>>]
SearchMany ==
    [ok |-> TRUE, datagrams |-> <<Datagram(ResponseTextLower), Datagram(ResponseTextOther),
                                  Datagram(ResponseTextNoUsn)>>]

\* two devices answer, with a datagram that does not parse between their responses
SearchSkips ==
    [ok |-> TRUE, datagrams |-> <<Datagram(ResponseTextOther), Datagram(ResponseTextNoUsn),
                                  Datagram(ResponseText)>>]

\* The discover_services calls made on the SSDP engine: the type list and what the
\* search for each type meets
SsdpDiscoverArgs ==
    {<<<<TypeOf(TypeUrn)>>, <<SearchFails>>>>,
     <<<<TypeOf(TypeUrn)>>, <<SearchSilent>>>>,
     <<<<TypeOf(TypeUrn)>>, <<SearchOne>>>>,
     <<<<TypeOf(TypeUrn)>>, <<SearchMany>>>>,
     <<<<TypeOf(TypeUrn), TypeOf(TypeH)>>, <<SearchOne, SearchMany>>>>,
     <<<<TypeOf(TypeUrn), TypeOf(TypeH)>>, <<SearchOne, SearchFails>>>>}

\* The register_service calls counted per id, up to this many.
MaxRepeat == 2

\* history: what lastCall holds for an id no call has named
NoCall == [last |-> "none", regs |-> 0]

CallOf(id) == IF id \in DOMAIN lastCall THEN lastCall[id] ELSE NoCall

\* ssdp.register_service(service)
SsdpRegister(service, send_ok) ==
    LET r == SsdpRegisterService(registered_services, service, send_ok) IN
        /\ registered_services' = r.table
        /\ ret' = [op |-> "ssdp_register_service", service |-> service, ok |-> r.ok]
        /\ lastCall' = MapPut(lastCall, service.id,
                              IF r.ok
                              THEN [last |-> "register_ok",
                                    regs |-> IF CallOf(service.id).last # "register_ok" THEN 1
                                             ELSE IF CallOf(service.id).regs < MaxRepeat
                                             THEN CallOf(service.id).regs + 1
                                             ELSE MaxRepeat]
                              ELSE [last |-> "register_err", regs |-> 0])
        /\ UNCHANGED <<registryVars, mdnsVars, listenerVars, managerVars, taskVars>>

\* ssdp.unregister_service(&service)
SsdpUnregister(service, send_ok) ==
    LET r == SsdpUnregisterService(registered_services, service, send_ok) IN
        /\ registered_services' = r.table
        /\ ret' = [op |-> "ssdp_unregister_service", service |-> service, ok |-> r.ok]
        /\ lastCall' = MapPut(lastCall, service.id,
                              [last |-> "unregister", regs |-> CallOf(service.id).regs])
        /\ UNCHANGED <<registryVars, mdnsVars, listenerVars, managerVars, taskVars>>

\* ssdp.verify_service(&service)
SsdpVerify(service) ==
    /\ ret' = [op |-> "ssdp_verify_service", service |-> service,
               val |-> SsdpVerifyService(registered_services, service)]
    /\ UNCHANGED <<registryVars, mdnsVars, ssdpVars, managerVars, taskVars>>

\* a discover_services that files the first service it found in the table
SsdpDiscoverCaching(service_types, runs) ==
    LET r == SsdpDiscoverServices(service_types, runs) IN
        /\ ret' = [op |-> "ssdp_discover_services", types |-> service_types, runs |-> runs,
                   ok |-> r.ok, out |-> IF r.ok THEN r.out ELSE <<>>]
        /\ registered_services' = IF r.ok /\ Len(r.out) > 0
                                  THEN MapPut(registered_services, r.out[1].id, r.out[1])
                                  ELSE registered_services
        /\ UNCHANGED <<registryVars, mdnsVars, lastCall, listenerVars, managerVars, taskVars>>

\* ssdp.discover_services(service_types, timeout)
SsdpDiscover(service_types, runs) ==
    LET r == SsdpDiscoverServices(service_types, runs) IN
        /\ ret' = [op |-> "ssdp_discover_services", types |-> service_types, runs |-> runs,
                   ok |-> r.ok, out |-> IF r.ok THEN r.out ELSE <<>>]
        /\ UNCHANGED <<registryVars, mdnsVars, ssdpVars, managerVars, taskVars>>

NextSsdp ==
    \/ \E s \in SsdpServices, send_ok \in BOOLEAN : SsdpRegister(s, send_ok)
    \/ \E s \in SsdpServices, send_ok \in BOOLEAN : SsdpUnregister(s, send_ok)
    \/ \E s \in SsdpServices : SsdpVerify(s)
    \/ \E a \in SsdpDiscoverArgs : SsdpDiscover(a[1], a[2])

SpecSsdp == Init /\ [][NextSsdp]_vars

\* The SSDP engine with a search that two devices answer
NextSsdpOrder ==
    \/ \E s \in {Svc(1, NameA, TypeUrn, 80), Svc(3, NameAB, TypeH, 81)}, send_ok \in BOOLEAN :
           SsdpRegister(s, send_ok)
    \/ \E s \in {Svc(1, NameA, TypeUrn, 80)}, send_ok \in BOOLEAN : SsdpUnregister(s, send_ok)
    \/ \E a \in SsdpDiscoverArgs \cup {<<<<TypeOf(TypeUrn)>>, <<SearchSkips>>>>} :
           SsdpDiscover(a[1], a[2])

SpecSsdpOrder == Init /\ [][NextSsdpOrder]_vars

---------------------------------------------------------------------------
(* protocols/mdns.rs: MdnsProtocol.  The engine's registry is the map `services` *)
(* (MdnsProtocol::new and set_registry both leave registry = Some); the daemon   *)
(* is the mdns_sd ServiceDaemon, whose calls fail or succeed as it decides.      *)

\* The wire form of a service type: the text, with ".local." appended unless it
\* ends with it
WireType(service_type) ==
    IF EndsWith(TypeToString(service_type), DotLocalDot)
    THEN TypeToString(service_type)
    ELSE TypeToString(service_type) \o DotLocalDot

\* MdnsServiceInfo::new(ty, name, hostname, address, port, txt) as register_service
\* builds it; fullname is what the daemon files it under
MdnsInfoOf(service) ==
    [ty |-> WireType(service.service_type),
     fullname |-> service.name \o <<".">> \o WireType(service.service_type),
     hostname |-> service.name \o DotLocalDot,
     port |-> service.port,
     addresses |-> 1]

\* MdnsProtocol::convert_to_service_info; id stands for the Uuid::new_v4() drawn
\* by ServiceInfo::new, addresses for the number of addresses the daemon resolved
ConvertToServiceInfo(mdns_info, id) ==
    LET service_type == ServiceTypeNew(mdns_info.ty) IN
    IF ~service_type.ok THEN [ok |-> FALSE]
    ELSE IF mdns_info.addresses = 0 THEN [ok |-> FALSE]
    ELSE LET r == ServiceInfoNew(id, mdns_info.hostname, TypeToString(service_type),
                                 mdns_info.port)
         IN  IF ~r.ok THEN [ok |-> FALSE]
             ELSE [ok |-> TRUE,
                   service |-> [id |-> r.id, name |-> r.name,
                                service_type |-> r.service_type, port |-> r.port,
                                protocol_type |-> "Mdns"]]

\* The receive loop of discover_services over the events the browse channel delivers
\* before the deadline: resolved services are converted and kept, SearchStopped ends
\* the loop, other events are skipped.  first_id numbers the ids drawn.
RECURSIVE CollectEvents(_, _)
CollectEvents(events, first_id) ==
    IF Len(events) = 0 THEN <<>>
    ELSE IF events[1].kind = "SearchStopped" THEN <<>>
    ELSE IF events[1].kind = "ServiceResolved"
    THEN LET c == ConvertToServiceInfo(events[1].info, first_id) IN
         (IF c.ok THEN <<c.service>> ELSE <<>>)
             \o CollectEvents(Tail(events), first_id + 1)
    ELSE CollectEvents(Tail(events), first_id + 1)

\* One browse per requested type, in order: runs[i] is what daemon.browse did for
\* service_types[i] (an error, or the events delivered)
RECURSIVE BrowseAll(_, _, _)
BrowseAll(service_types, runs, i) ==
    IF i > Len(service_types) THEN [ok |-> TRUE, out |-> <<>>]
    ELSE IF ~runs[i].ok THEN [ok |-> FALSE, err |-> "Mdns"]
    ELSE LET rest == BrowseAll(service_types, runs, i + 1) IN
         IF ~rest.ok THEN rest
         ELSE [ok |-> TRUE,
               out |-> CollectEvents(runs[i].events, NetIdBase + 10 * i) \o rest.out]

\* the local merge with the type compared as text only, without the ".local." forms
TypeMatchesExact(service_types, service) ==
    \E i \in 1..Len(service_types) :
        TypeToString(service_types[i]) = TypeToString(service.service_type)

\* Whether a locally registered service matches any requested type
TypeMatches(service_types, service) ==
    \E i \in 1..Len(service_types) :
        LET st_str == TypeToString(service_types[i])
            service_type_str == TypeToString(service.service_type)
        IN  \/ st_str = service_type_str
            \/ st_str \o DotLocalDot = service_type_str
            \/ st_str = service_type_str \o DotLocalDot

\* The merge loop over the local services in the order get_local_services gave them
RECURSIVE MergeLocal(_, _, _)
MergeLocal(discovered_services, local_services, service_types) ==
    IF Len(local_services) = 0 THEN discovered_services
    ELSE LET service == local_services[1] IN
         IF TypeMatches(service_types, service)
            /\ ~(\E i \in 1..Len(discovered_services) :
                    discovered_services[i].id = service.id)
         THEN MergeLocal(Append(discovered_services, service), Tail(local_services),
                         service_types)
         ELSE MergeLocal(discovered_services, Tail(local_services), service_types)

\* The orders in which a Vec collected from a HashMap can list a set
RECURSIVE Orders(_)
Orders(S) ==
    IF S = {} THEN {<<>>}
    ELSE UNION {{<<x>> \o o : o \in Orders(S \ {x})} : x \in S}

\* MdnsProtocol::discover_services: the possible results
MdnsDiscoverServices(svcs, service_types, runs, t) ==
    LET net == BrowseAll(service_types, runs, 1) IN
    IF ~net.ok THEN {net}
    ELSE {[ok |-> TRUE, out |-> MergeLocal(net.out, local_services, service_types)] :
              local_services \in Orders(GetLocalServices(svcs, t))}

\* MdnsProtocol::register_service; daemon_ok is whether MdnsServiceInfo::new and
\* daemon.register returned Ok
MdnsRegisterService(svcs, dmn, service, daemon_ok, t) ==
    IF ~daemon_ok THEN [ok |-> FALSE, err |-> "Mdns", services |-> svcs, daemon |-> dmn]
    ELSE LET r == RegisterLocalService(svcs, service, "Mdns", t) IN
         [ok |-> r.ok, services |-> r.services,
          daemon |-> MapPut(dmn, MdnsInfoOf(service).fullname, MdnsInfoOf(service))]

\* unregister_service that unregisters from the daemon and leaves the registry alone
MdnsUnregisterDaemonOnly(svcs, dmn, service, daemon_ok) ==
    IF ~daemon_ok THEN [ok |-> FALSE, err |-> "Mdns", services |-> svcs, daemon |-> dmn]
    ELSE [ok |-> TRUE, services |-> svcs,
          daemon |-> MapRemove(dmn, MdnsInfoOf(service).fullname)]

\* MdnsProtocol::unregister_service; daemon_ok is whether daemon.unregister returned Ok
MdnsUnregisterService(svcs, dmn, service, daemon_ok) ==
    IF ~daemon_ok THEN [ok |-> FALSE, err |-> "Mdns", services |-> svcs, daemon |-> dmn]
    ELSE LET service_id == service.name \o <<":">> \o TypeToString(service.service_type)
                               \o <<":">> \o FormatNat(service.port)
             r == UnregisterLocalService(svcs, service_id)
         IN  IF r.ok
             THEN [ok |-> TRUE, services |-> r.services,
                   daemon |-> MapRemove(dmn, MdnsInfoOf(service).fullname)]
             ELSE [ok |-> FALSE, err |-> r.err, services |-> r.services,
                   daemon |-> MapRemove(dmn, MdnsInfoOf(service).fullname)]

\* MdnsProtocol::verify_service
MdnsVerifyService(svcs, service, t) ==
    \E s \in GetLocalServices(svcs, t) : s.name = service.name

\* "_h._t.local.", a type written with its domain
TypeHLocal == TypeH \o DotLocalDot

\* The services handed to the mDNS engine, each the Ok value of its own
\* ServiceInfo::new call: two share the name and differ in the ".local." suffix of
\* the type, two share name, type and port, one has a name of its own.
MdnsServices ==
    {Svc(1, NameA, TypeH, 80), Svc(2, NameA, TypeHLocal, 80), Svc(3, NameB, TypeH, 81),
     Svc(4, NameA, TypeH, 80)}

\* The type lists handed to discover_services
MdnsTypeLists ==
    {<<TypeOf(TypeH)>>, <<TypeOf(TypeHLocal)>>, <<TypeOf(TypeS)>>,
     <<TypeOf(TypeS), TypeOf(TypeH)>>}

\* A service of another host, as the daemon resolves it; addresses 0 is a record
\* resolved without an address
RemoteInfo(ty, addresses) ==
    [ty |-> ty, fullname |-> <<"r", ".">> \o ty, hostname |-> <<"r">> \o DotLocalDot,
     port |-> 80, addresses |-> addresses]

\* the events of the browse channel
ServiceResolved(info) == [kind |-> "ServiceResolved", info |-> info]
ServiceFound(info) == [kind |-> "ServiceFound", info |-> info]
SearchStopped(info) == [kind |-> "SearchStopped", info |-> info]

\* What daemon.browse(ty) can do: fail, deliver nothing before the deadline, resolve
\* a service this daemon announces, resolve services of other hosts
BrowseRuns(ty, dmn) ==
    {[ok |-> FALSE, events |-> <<>>], [ok |-> TRUE, events |-> <<>>]}
    \cup {[ok |-> TRUE, events |-> <<ServiceFound(dmn[k]), ServiceResolved(dmn[k])>>] :
              k \in {x \in DOMAIN dmn : dmn[x].ty = ty}}
    \cup {[ok |-> TRUE,
           events |-> <<ServiceResolved(RemoteInfo(ty, 0)), ServiceResolved(RemoteInfo(ty, 1)),
                        SearchStopped(RemoteInfo(ty, 1)), ServiceResolved(RemoteInfo(ty, 1))>>]}

\* mdns.register_service(service)
MdnsRegister(service, daemon_ok) ==
    LET r == MdnsRegisterService(services, daemon, service, daemon_ok, now) IN
        /\ services' = r.services
        /\ daemon' = r.daemon
        /\ ret' = [op |-> "mdns_register_service", service |-> service, ok |-> r.ok]
        /\ mreg' = IF r.ok THEN mreg \cup {service} ELSE mreg
        /\ munreg' = IF r.ok THEN {x \in munreg : ServiceId(x) # ServiceId(service)}
                     ELSE munreg
        /\ UNCHANGED <<now, added, ssdpVars, managerVars, taskVars>>

\* mdns.unregister_service(&service)
MdnsUnregister(service, daemon_ok) ==
    LET r == MdnsUnregisterService(services, daemon, service, daemon_ok) IN
        /\ services' = r.services
        /\ daemon' = r.daemon
        /\ ret' = [op |-> "mdns_unregister_service", service |-> service, ok |-> r.ok]
        /\ mreg' = IF r.ok THEN {x \in mreg : ServiceId(x) # ServiceId(service)} ELSE mreg
        /\ munreg' = IF r.ok THEN munreg \cup {service} ELSE munreg
        /\ UNCHANGED <<now, added, ssdpVars, managerVars, taskVars>>

\* mdns.verify_service(&service)
MdnsVerify(service) ==
    /\ ret' = [op |-> "mdns_verify_service", service |-> service, ok |-> TRUE,
               val |-> MdnsVerifyService(services, service, now)]
    /\ UNCHANGED <<registryVars, mdnsVars, ssdpVars, managerVars, taskVars>>

\* mdns.discover_services(service_types, timeout)
MdnsDiscover(service_types, runs) ==
    \E r \in MdnsDiscoverServices(services, service_types, runs, now) :
        /\ ret' = [op |-> "mdns_discover_services", types |-> service_types, ok |-> r.ok,
                   out |-> IF r.ok THEN r.out ELSE <<>>]
        /\ UNCHANGED <<registryVars, mdnsVars, ssdpVars, managerVars, taskVars>>

NextMdns ==
    \/ \E service \in MdnsServices, daemon_ok \in BOOLEAN : MdnsRegister(service, daemon_ok)
    \/ \E service \in MdnsServices, daemon_ok \in BOOLEAN : MdnsUnregister(service, daemon_ok)
    \/ \E service \in MdnsServices : MdnsVerify(service)
    \/ \E service_types \in MdnsTypeLists :
           \E runs \in [1..Len(service_types) ->
                            UNION {BrowseRuns(WireType(service_types[i]), daemon) :
                                       i \in 1..Len(service_types)}] :
               /\ \A i \in 1..Len(service_types) :
                      runs[i] \in BrowseRuns(WireType(service_types[i]), daemon)
               /\ MdnsDiscover(service_types, runs)

SpecMdns == Init /\ [][NextMdns]_vars

\* for attempt in 1..=3
DaemonAttempts == 3

\* Duration::from_millis(100 * attempt): the milliseconds slept per attempt number
RetryDelayMs == 100

\* the retry loop with the same sleep after every failed attempt
RECURSIVE CreateDaemonFlatDelay(_, _, _)
CreateDaemonFlatDelay(attempt, outcomes, sleeps) ==
    IF attempt > DaemonAttempts
    THEN [ok |-> FALSE, err |-> "Mdns", attempts |-> attempt - 1, sleeps |-> sleeps]
    ELSE IF outcomes[attempt]
    THEN [ok |-> TRUE, err |-> "none", attempts |-> attempt, sleeps |-> sleeps]
    ELSE IF attempt < DaemonAttempts
    THEN CreateDaemonFlatDelay(attempt + 1, outcomes, Append(sleeps, RetryDelayMs))
    ELSE [ok |-> FALSE, err |-> "Mdns", attempts |-> attempt, sleeps |-> sleeps]

\* The loop of MdnsProtocol::create_daemon_with_retry from this attempt on;
\* outcomes[k] is whether the k-th ServiceDaemon::new() returns Ok, sleeps the
\* durations slept so far
RECURSIVE CreateDaemonFrom(_, _, _)
CreateDaemonFrom(attempt, outcomes, sleeps) ==
    IF attempt > DaemonAttempts
    THEN [ok |-> FALSE, err |-> "Mdns", attempts |-> attempt - 1, sleeps |-> sleeps]
    ELSE IF outcomes[attempt]
    THEN [ok |-> TRUE, err |-> "none", attempts |-> attempt, sleeps |-> sleeps]
    ELSE IF attempt < DaemonAttempts
    THEN CreateDaemonFrom(attempt + 1, outcomes, Append(sleeps, RetryDelayMs * attempt))
    ELSE [ok |-> FALSE, err |-> "Mdns", attempts |-> attempt, sleeps |-> sleeps]

\* MdnsProtocol::create_daemon_with_retry
CreateDaemonWithRetry(outcomes) == CreateDaemonFrom(1, outcomes, <<>>)

\* What the calls of ServiceDaemon::new() would return, one more than the loop makes
DaemonOutcomes == [1..(DaemonAttempts + 1) -> BOOLEAN]

\* MdnsProtocol::new(config): the daemon of create_daemon_with_retry and a new registry
MdnsNew(outcomes) ==
    LET r == CreateDaemonWithRetry(outcomes) IN
        /\ IF r.ok
           THEN /\ daemon' = EmptyMap
                /\ services' = EmptyMap
                /\ added' = EmptyMap
                /\ mreg' = {}
                /\ munreg' = {}
           ELSE UNCHANGED <<daemon, services, added, mreg, munreg>>
        /\ ret' = [op |-> "mdns_new", outcomes |-> outcomes, ok |-> r.ok, err |-> r.err,
                   attempts |-> r.attempts, sleeps |-> r.sleeps]
        /\ UNCHANGED <<now, ssdpVars, managerVars, taskVars>>

NextMdnsNew ==
    \/ \E outcomes \in DaemonOutcomes : MdnsNew(outcomes)
    \/ \E service \in MdnsServices, daemon_ok \in BOOLEAN : MdnsRegister(service, daemon_ok)
    \/ \E service \in {Svc(1, NameA, TypeH, 80), Svc(3, NameB, TypeH, 81)},
          daemon_ok \in BOOLEAN : MdnsUnregister(service, daemon_ok)
    \/ \E service \in {Svc(1, NameA, TypeH, 80), Svc(3, NameB, TypeH, 81)} :
           MdnsVerify(service)

SpecMdnsNew == Init /\ [][NextMdnsNew]_vars

---------------------------------------------------------------------------
(* protocols/upnp.rs: the SSDP listener.  start_listener spawns one task, which   *)
(* binds its socket and then selects between the shutdown signal and recv_from.   *)

\* SsdpProtocol::parse_search_target
RECURSIVE ParseSearchTargetIn(_)
ParseSearchTargetIn(lines) ==
    IF Len(lines) = 0 THEN <<"s", "s", "d", "p", ":", "a", "l", "l">>
    ELSE IF Len(StripPrefix(lines[1], <<"S", "T", ":">>)) = 1
    THEN Trim(StripPrefix(lines[1], <<"S", "T", ":">>)[1])
    ELSE ParseSearchTargetIn(Tail(lines))

ParseSearchTarget(message) == ParseSearchTargetIn(Lines(message))

\* service_matches_search that answers the type comparison only
ServiceMatchesTypeOnly(search_target, service) ==
    \/ search_target = TypeToString(service.service_type)
    \/ Contains(TypeToString(service.service_type), search_target)

\* SsdpProtocol::service_matches_search
ServiceMatchesSearch(search_target, service) ==
    IF search_target \in {<<"s", "s", "d", "p", ":", "a", "l", "l">>,
                          <<"u", "p", "n", "p", ":", "r", "o", "o", "t", "d", "e", "v", "i", "c", "e">>}
    THEN TRUE
    ELSE \/ search_target = TypeToString(service.service_type)
         \/ Contains(TypeToString(service.service_type), search_target)

\* The Ok arm of the listener's recv_from: the send_response calls made for one
\* datagram, in each order in which the table's values can be listed
HandleDatagram(table, message, addr) ==
    IF Contains(message, <<"M", "-", "S", "E", "A", "R", "C", "H">>)
    THEN LET search_target == ParseSearchTarget(message)
             matching == {k \in DOMAIN table : ServiceMatchesSearch(search_target, table[k])}
         IN  {[i \in 1..Len(o) |-> [to |-> addr, service |-> table[o[i]]]] :
                  o \in Orders(matching)}
    ELSE {<<>>}

\* select! that never takes the shutdown branch
SelectRecvOnly(shutdown_ready, recv_ready) ==
    IF recv_ready THEN {"recv"} ELSE {}

\* tokio::select! over the shutdown receiver and recv_from: any branch that is ready
Select(shutdown_ready, recv_ready) ==
    (IF shutdown_ready THEN {"shutdown"} ELSE {})
        \cup (IF recv_ready THEN {"recv"} ELSE {})

\* an M-SEARCH for ssdp:all
MSearchAll ==
    <<"M", "-", "S", "E", "A", "R", "C", "H", " ", "*", " ", "H", "T", "T", "P", "/",
      "1", ".", "1", "\r", "\n", "S", "T", ":", " ", "s", "s", "d", "p", ":", "a", "l",
      "l", "\r", "\n", "M", "X", ":", " ", "1", "\r", "\n", "\r", "\n">>

\* an M-SEARCH for the type urn:x
MSearchUrn ==
    <<"M", "-", "S", "E", "A", "R", "C", "H", " ", "*", " ", "H", "T", "T", "P", "/",
      "1", ".", "1", "\r", "\n", "S", "T", ":", " ", "u", "r", "n", ":", "x", "\r", "\n",
      "M", "X", ":", " ", "1", "\r", "\n", "\r", "\n">>

\* an M-SEARCH for a target no service has
MSearchNone ==
    <<"M", "-", "S", "E", "A", "R", "C", "H", " ", "*", " ", "H", "T", "T", "P", "/",
      "1", ".", "1", "\r", "\n", "S", "T", ":", " ", "z", "z", "\r", "\n", "M", "X", ":",
      " ", "1", "\r", "\n", "\r", "\n">>

\* a NOTIFY of another device
NotifyText ==
    <<"N", "O", "T", "I", "F", "Y", " ", "*", " ", "H", "T", "T", "P", "/", "1", ".",
      "1", "\r", "\n", "N", "T", ":", " ", "r", "\r", "\n", "N", "T", "S", ":", " ", "s",
      "s", "d", "p", ":", "a", "l", "i", "v", "e", "\r", "\n", "\r", "\n">>

\* The datagrams that reach port 1900, each from the same requester
ListenerDatagrams ==
    {Datagram(MSearchAll), Datagram(MSearchUrn), Datagram(MSearchNone), Datagram(NotifyText)}

\* The services registered while the listener is watched: three ids, two types
ListenerServices ==
    {Svc(1, NameA, TypeUrn, 80), Svc(2, NameB, TypeUrn, 80), Svc(3, NameAB, TypeH, 81)}

\* The socket queues this many datagrams
MaxInbox == 1

\* the positions in which the listener task has ended
Ended == {"bind_error", "recv_error", "shutdown"}

\* ssdp.start_listener()
StartListener ==
    /\ shutdown_tx # "Dropped"
    /\ IF listener_handle
       THEN UNCHANGED listenerVars
       ELSE /\ shutdown_tx' = "Some"
            /\ listener' = "spawned"
            /\ listener_handle' = TRUE
            /\ UNCHANGED inbox
    /\ ret' = [op |-> "start_listener", ok |-> TRUE, spawned |-> ~listener_handle]
    /\ UNCHANGED <<registryVars, mdnsVars, registered_services, lastCall, managerVars, taskVars>>

\* The listener task binds 0.0.0.0:1900 and joins the multicast group, or fails to
\* and returns
ListenerBind(bind_ok) ==
    /\ listener = "spawned"
    /\ listener' = IF bind_ok THEN "listening" ELSE "bind_error"
    /\ ret' = [op |-> "listener_bind", ok |-> bind_ok]
    /\ UNCHANGED <<registryVars, mdnsVars, registered_services, lastCall, listener_handle,
                   shutdown_tx, inbox, managerVars, taskVars>>

\* A datagram is sent to port 1900: the listener's socket queues it if there is a
\* socket with room, and nothing of the engine sees it otherwise
Arrive(datagram) ==
    /\ IF listener = "listening" /\ Len(inbox) < MaxInbox
       THEN /\ inbox' = Append(inbox, datagram)
            /\ ret' = [op |-> "arrive", delivered |-> TRUE]
       ELSE /\ UNCHANGED inbox
            /\ ret' = [op |-> "arrive", delivered |-> FALSE]
    /\ UNCHANGED <<registryVars, mdnsVars, registered_services, lastCall, listener_handle,
                   shutdown_tx, listener, managerVars, taskVars>>

\* select takes recv_from, which returned a datagram
ListenerRecv ==
    /\ listener = "listening"
    /\ "recv" \in Select(shutdown_tx = "Dropped", Len(inbox) > 0)
    /\ \E sent \in HandleDatagram(registered_services, inbox[1].text, inbox[1].addr) :
           ret' = [op |-> "listener_recv", message |-> inbox[1].text, addr |-> inbox[1].addr,
                   sent |-> sent]
    /\ inbox' = Tail(inbox)
    /\ UNCHANGED <<registryVars, mdnsVars, registered_services, lastCall, listener_handle,
                   shutdown_tx, listener, managerVars, taskVars>>

\* select takes recv_from, which returned an error: the task leaves the loop
ListenerRecvError ==
    /\ listener = "listening"
    /\ listener' = "recv_error"
    /\ inbox' = <<>>
    /\ ret' = [op |-> "listener_recv_error"]
    /\ UNCHANGED <<registryVars, mdnsVars, registered_services, lastCall, listener_handle,
                   shutdown_tx, managerVars, taskVars>>

\* select takes the shutdown receiver, which is ready once its sender is gone: the
\* task leaves the loop
ListenerShutdown ==
    /\ listener = "listening"
    /\ "shutdown" \in Select(shutdown_tx = "Dropped", Len(inbox) > 0)
    /\ listener' = "shutdown"
    /\ inbox' = <<>>
    /\ ret' = [op |-> "listener_shutdown"]
    /\ UNCHANGED <<registryVars, mdnsVars, registered_services, lastCall, listener_handle,
                   shutdown_tx, managerVars, taskVars>>

\* The engine is dropped, and its shutdown sender and join handle with it; the task
\* is detached and keeps the table it shares
EngineDrop ==
    /\ shutdown_tx # "Dropped"
    /\ shutdown_tx' = "Dropped"
    /\ ret' = [op |-> "drop"]
    /\ UNCHANGED <<registryVars, mdnsVars, registered_services, lastCall, listener_handle,
                   listener, inbox, managerVars, taskVars>>

NextSsdpListener ==
    \/ \E s \in ListenerServices, send_ok \in BOOLEAN :
           shutdown_tx # "Dropped" /\ SsdpRegister(s, send_ok)
    \/ \E s \in ListenerServices, send_ok \in BOOLEAN :
           shutdown_tx # "Dropped" /\ SsdpUnregister(s, send_ok)
    \/ StartListener
    \/ \E bind_ok \in BOOLEAN : ListenerBind(bind_ok)
    \/ \E d \in ListenerDatagrams : Arrive(d)
    \/ ListenerRecv
    \/ ListenerRecvError
    \/ ListenerShutdown
    \/ EngineDrop

SpecSsdpListener == Init /\ [][NextSsdpListener]_vars

\* The runtime polls a spawned task that is ready, and select! takes its ready
\* branches in random order, so that a branch that stays ready is taken in the end
SpecSsdpListenerFair ==
    /\ SpecSsdpListener
    /\ WF_vars(\E bind_ok \in BOOLEAN : ListenerBind(bind_ok))
    /\ WF_vars(ListenerShutdown)

---------------------------------------------------------------------------
(* The listener on datagrams whose headers are missing *)

\* an M-SEARCH that carries no ST header
MSearchNoSt ==
    <<"M", "-", "S", "E", "A", "R", "C", "H", " ", "*", " ", "H", "T", "T", "P", "/",
      "1", ".", "1", "\r", "\n", "H", "O", "S", "T", ":", " ", "h", "\r", "\n", "M", "X",
      ":", " ", "1", "\r", "\n", "\r", "\n">>

HeaderDatagrams == {Datagram(MSearchNoSt), Datagram(MSearchUrn), Datagram(NotifyText)}

NextSsdpHeaders ==
    \/ \E s \in ListenerServices : SsdpRegister(s, TRUE)
    \/ StartListener
    \/ \E bind_ok \in BOOLEAN : ListenerBind(bind_ok)
    \/ \E d \in HeaderDatagrams : Arrive(d)
    \/ ListenerRecv

SpecSsdpHeaders == Init /\ [][NextSsdpHeaders]_vars

---------------------------------------------------------------------------
(* The engines' receive loops in time.  Time is counted in quarters of a second  *)
(* from the moment discover_services is called; sending and parsing take none.   *)

\* Duration::as_secs
AsSecs(d) == d \div 4

\* timeout.unwrap_or(Duration::from_secs(5)) of the mDNS engine, in quarter seconds
MdnsDefaultTimeout == 20

\* Duration::from_millis(500), the longest one recv_timeout of the mDNS engine waits
PerAttemptTimeout == 2

\* timeout.unwrap_or(Duration::from_secs(10)) of the SSDP engine
SsdpDefaultTimeout == 40

\* .min(Duration::from_secs(30)) of the SSDP engine
SsdpMaxTimeout == 120

Min(a, b) == IF a < b THEN a ELSE b

Max(a, b) == IF a > b THEN a ELSE b

\* The while loop of MdnsProtocol::discover_services for one service type; arrivals
\* are the events the browse channel will hold, each with the time `at` it arrives,
\* counted from start_time.  The events received, and start_time.elapsed() when the
\* loop is left.
RECURSIVE MdnsReceiveLoop(_, _, _, _)
MdnsReceiveLoop(arrivals, elapsed, discovery_timeout, events) ==
    LET per_attempt_timeout == Min(discovery_timeout, PerAttemptTimeout) IN
    IF ~(elapsed < discovery_timeout) THEN [events |-> events, elapsed |-> elapsed]
    ELSE IF Len(arrivals) > 0 /\ arrivals[1].at < elapsed + per_attempt_timeout
    THEN IF arrivals[1].event.kind = "SearchStopped"
         THEN [events |-> Append(events, arrivals[1].event),
               elapsed |-> Max(elapsed, arrivals[1].at)]
         ELSE MdnsReceiveLoop(Tail(arrivals), Max(elapsed, arrivals[1].at),
                              discovery_timeout, Append(events, arrivals[1].event))
    ELSE MdnsReceiveLoop(arrivals, elapsed + per_attempt_timeout, discovery_timeout, events)

\* the sum of the first n entries
RECURSIVE SumTo(_, _)
SumTo(f, n) == IF n = 0 THEN 0 ELSE f[n] + SumTo(f, n - 1)

\* MdnsProtocol::discover_services with its clock: channels[i] is whether
\* daemon.browse returned Ok for service_types[i] and what its channel will hold.
\* The possible results, each with the time at which the call returns.
MdnsDiscoverTimed(svcs, service_types, timeout, channels, t) ==
    LET discovery_timeout == IF Len(timeout) = 1 THEN timeout[1] ELSE MdnsDefaultTimeout
        n == Len(service_types)
        loops == [i \in 1..n |-> MdnsReceiveLoop(channels[i].arrivals, 0,
                                                 discovery_timeout, <<>>)]
        runs == [i \in 1..n |-> [ok |-> channels[i].ok, events |-> loops[i].events]]
        browsed == IF \E i \in 1..n : ~channels[i].ok
                   THEN (CHOOSE i \in 1..n : ~channels[i].ok
                                             /\ \A j \in 1..(i - 1) : channels[j].ok) - 1
                   ELSE n
    IN  {[ok |-> r.ok, out |-> IF r.ok THEN r.out ELSE <<>>,
          elapsed |-> SumTo([i \in 1..n |-> loops[i].elapsed], browsed)] :
              r \in MdnsDiscoverServices(svcs, service_types, runs, t)}

\* The while loop of SsdpProtocol::discover_services for one search socket; arrivals
\* are the datagrams and the receive errors the socket will meet, each with the time
\* `at` counted from start_time.  The datagrams received, and start_time.elapsed()
\* when the loop is left.
RECURSIVE SsdpReceiveLoop(_, _, _, _)
SsdpReceiveLoop(arrivals, elapsed, timeout_duration, datagrams) ==
    IF ~(elapsed < timeout_duration) THEN [datagrams |-> datagrams, elapsed |-> elapsed]
    ELSE IF Len(arrivals) > 0 /\ arrivals[1].at < timeout_duration
    THEN IF arrivals[1].kind = "error"
         THEN [datagrams |-> datagrams, elapsed |-> Max(elapsed, arrivals[1].at)]
         ELSE SsdpReceiveLoop(Tail(arrivals), Max(elapsed, arrivals[1].at),
                              timeout_duration, Append(datagrams, arrivals[1].datagram))
    ELSE [datagrams |-> datagrams, elapsed |-> timeout_duration]

\* The for loop of SsdpProtocol::discover_services from the i-th type on: what each
\* search met before the deadline, and the time at which the loop is left
RECURSIVE SsdpSearchFrom(_, _, _, _, _)
SsdpSearchFrom(channels, i, elapsed, timeout_duration, runs) ==
    IF i > Len(channels) THEN [runs |-> runs, elapsed |-> elapsed]
    ELSE IF ~channels[i].ok
    THEN [runs |-> Append(runs, [ok |-> FALSE, datagrams |-> <<>>]), elapsed |-> elapsed]
    ELSE LET l == SsdpReceiveLoop(channels[i].arrivals, elapsed, timeout_duration, <<>>)
         IN  SsdpSearchFrom(channels, i + 1, l.elapsed, timeout_duration,
                            Append(runs, [ok |-> TRUE, datagrams |-> l.datagrams]))

\* The request send_search_request writes
SearchRequestText(service_type, timeout_secs) ==
        <<"M", "-", "S", "E", "A", "R", "C", "H", " ", "*", " ", "H", "T", "T", "P",
          "/", "1", ".", "1", "\r", "\n", "H", "O", "S", "T", ":", " ", "2", "3", "9",
          ".", "2", "5", "5", ".", "2", "5", "5", ".", "2", "5", "0", ":", "1", "9",
          "0", "0", "\r", "\n", "M", "A", "N", ":", " ", "\"", "s", "s", "d", "p", ":",
          "d", "i", "s", "c", "o", "v", "e", "r", "\"", "\r", "\n", "S", "T", ":", " ">>
        \o service_type \o
        <<"\r", "\n", "M", "X", ":", " ">>
        \o FormatNat(timeout_secs) \o <<"\r", "\n", "\r", "\n">>

\* SsdpProtocol::discover_services with its clock: channels[i] is whether
\* send_search_request returned Ok for service_types[i] and what its socket will meet
SsdpDiscoverTimed(service_types, timeout, channels) ==
    LET timeout_duration ==
            Min(IF Len(timeout) = 1 THEN timeout[1] ELSE SsdpDefaultTimeout, SsdpMaxTimeout)
        s == SsdpSearchFrom(channels, 1, 0, timeout_duration, <<>>)
        r == SsdpDiscoverServices(service_types, s.runs)
    IN  [ok |-> r.ok, out |-> IF r.ok THEN r.out ELSE <<>>, elapsed |-> s.elapsed,
         requests |-> {SearchRequestText(TypeToString(service_types[i]),
                                         AsSecs(timeout_duration)) :
                           i \in {x \in 1..Len(s.runs) : s.runs[x].ok}}]

\* The timeouts handed to discover_services: none, a quarter second, three quarters,
\* more than the SSDP engine allows
Timeouts == {<<>>, <<1>>, <<3>>, <<SsdpMaxTimeout + 1>>}

\* What a browse channel can hold: the browse fails, nothing arrives, two services
\* are resolved one after the other, the search is stopped at once
MdnsChannels ==
    {[ok |-> FALSE, arrivals |-> <<>>],
     [ok |-> TRUE, arrivals |-> <<>>],
     [ok |-> TRUE,
      arrivals |-> <<[at |-> 1, event |-> ServiceResolved(RemoteInfo(WireType(TypeOf(TypeH)), 1))],
                     [at |-> 2, event |-> ServiceResolved(RemoteInfo(WireType(TypeOf(TypeS)), 1))]>>],
     [ok |-> TRUE,
      arrivals |-> <<[at |-> 0, event |-> SearchStopped(RemoteInfo(WireType(TypeOf(TypeH)), 1))]>>]}

\* What a search socket can meet: the request is not sent, nothing answers, two
\* devices answer one after the other, recv_from fails
SsdpChannels ==
    {[ok |-> FALSE, arrivals |-> <<>>],
     [ok |-> TRUE, arrivals |-> <<>>],
     [ok |-> TRUE,
      arrivals |-> <<[at |-> 0, kind |-> "datagram", datagram |-> Datagram(ResponseText)],
                     [at |-> 2, kind |-> "datagram", datagram |-> Datagram(ResponseTextOther)]>>],
     [ok |-> TRUE, arrivals |-> <<[at |-> 1, kind |-> "error"]>>]}

\* mdns.discover_services(service_types, timeout), with the time it took
MdnsDiscoverWithin(service_types, timeout, channels) ==
    \E r \in MdnsDiscoverTimed(services, service_types, timeout, channels, now) :
        /\ ret' = [op |-> "mdns_discover_services", types |-> service_types,
                   timeout |-> timeout, channels |-> channels, ok |-> r.ok, out |-> r.out,
                   elapsed |-> r.elapsed]
        /\ UNCHANGED <<registryVars, mdnsVars, ssdpVars, managerVars, taskVars>>

\* ssdp.discover_services(service_types, timeout), with the time it took
SsdpDiscoverWithin(service_types, timeout, channels) ==
    LET r == SsdpDiscoverTimed(service_types, timeout, channels) IN
        /\ ret' = [op |-> "ssdp_discover_services", types |-> service_types,
                   timeout |-> timeout, channels |-> channels, ok |-> r.ok, out |-> r.out,
                   elapsed |-> r.elapsed, requests |-> r.requests]
        /\ UNCHANGED <<registryVars, mdnsVars, ssdpVars, managerVars, taskVars>>

NextTimed ==
    \/ MdnsRegister(Svc(1, NameA, TypeH, 80), TRUE)
    \/ \E service_types \in {<<TypeOf(TypeH)>>, <<TypeOf(TypeS), TypeOf(TypeH)>>},
          timeout \in Timeouts :
           \E channels \in [1..Len(service_types) -> MdnsChannels] :
               MdnsDiscoverWithin(service_types, timeout, channels)
    \/ \E service_types \in {<<TypeOf(TypeUrn)>>, <<TypeOf(TypeUrn), TypeOf(TypeH)>>},
          timeout \in Timeouts :
           \E channels \in [1..Len(service_types) -> SsdpChannels] :
               SsdpDiscoverWithin(service_types, timeout, channels)

SpecTimed == Init /\ [][NextTimed]_vars

---------------------------------------------------------------------------

(* protocols/upnp.rs: tasks sharing one SsdpProtocol.  A call is followed from *)
(* await to await: registered_services.write().await, the send_announcement    *)
(* await, and in the listener registered_services.read().await and each        *)
(* send_response await.  A guard is held until its block is left.              *)
(* The history lastCall follows the calls made in one step only and is left    *)
(* alone here.                                                                 *)

\* The service each task registers and unregisters
TaskServices ==
    <<Svc(1, NameA, TypeUrn, 80), Svc(2, NameB, TypeH, 80), Svc(3, NameAB, TypeUrn, 81)>>

\* a write that is granted while readers hold the lock
CanWriteAmongReaders(l) == l.writer = 0

\* RwLock::write is granted: no writer and no reader holds the lock
CanWrite(l) == l.writer = 0 /\ l.readers = {}

\* RwLock::read is granted: no writer holds the lock
CanRead(l) == l.writer = 0

\* a write guard that is kept when the send has failed
WriteUnlockOnOkOnly(l, send_ok) == IF send_ok THEN [l EXCEPT !.writer = 0] ELSE l

\* the write guard `services` is dropped when the function returns, by Ok(()) or by ?
WriteUnlock(l, send_ok) == [l EXCEPT !.writer = 0]

\* task i calls ssdp.register_service or ssdp.unregister_service for its service and
\* reaches registered_services.write().await
TaskCall(i, op) ==
    /\ tasks[i].pc \in {"init", "done"}
    /\ tasks' = [tasks EXCEPT ![i] = [pc |-> "waiting", op |-> op]]
    /\ ret' = [op |-> "task_call", task |-> i, call |-> op]
    /\ UNCHANGED <<registryVars, mdnsVars, ssdpVars, managerVars, lock, responder, fanout>>

\* the write lock is granted to task i: register_service inserts and reaches the
\* send_announcement await; unregister_service removes and reaches it if the service
\* was in the table, and returns Ok(()) if it was not
TaskLock(i) ==
    LET service == TaskServices[i] IN
    /\ tasks[i].pc = "waiting"
    /\ CanWrite(lock)
    /\ IF tasks[i].op = "register"
       THEN /\ registered_services' = MapPut(registered_services, service.id, service)
            /\ lock' = [lock EXCEPT !.writer = i]
            /\ tasks' = [tasks EXCEPT ![i].pc = "sending"]
            /\ ret' = [op |-> "task_lock", task |-> i]
       ELSE IF service.id \in DOMAIN registered_services
       THEN /\ registered_services' = MapRemove(registered_services, service.id)
            /\ lock' = [lock EXCEPT !.writer = i]
            /\ tasks' = [tasks EXCEPT ![i].pc = "sending"]
            /\ ret' = [op |-> "task_lock", task |-> i]
       ELSE /\ UNCHANGED <<registered_services, lock>>
            /\ tasks' = [tasks EXCEPT ![i] = [pc |-> "done", op |-> "unregister", ok |-> TRUE]]
            /\ ret' = [op |-> "ssdp_unregister_service", service |-> service, ok |-> TRUE]
    /\ UNCHANGED <<registryVars, mdnsVars, lastCall, listenerVars, managerVars, responder,
                   fanout>>

\* send_announcement returns to task i, and the call returns
TaskSent(i, send_ok) ==
    /\ tasks[i].pc = "sending"
    /\ lock' = WriteUnlock(lock, send_ok)
    /\ tasks' = [tasks EXCEPT ![i] = [pc |-> "done", op |-> tasks[i].op, ok |-> send_ok]]
    /\ ret' = [op |-> IF tasks[i].op = "register" THEN "ssdp_register_service"
                      ELSE "ssdp_unregister_service",
               service |-> TaskServices[i], ok |-> send_ok]
    /\ UNCHANGED <<registryVars, mdnsVars, ssdpVars, managerVars, responder, fanout>>

\* recv_from of the listener returns an M-SEARCH, and the listener reaches
\* registered_services.read().await
ListenerRecvSearch(message) ==
    /\ listener = "listening"
    /\ responder.pc = "recv"
    /\ Contains(message, <<"M", "-", "S", "E", "A", "R", "C", "H">>)
    /\ responder' = [pc |-> "locking", search_target |-> ParseSearchTarget(message)]
    /\ ret' = [op |-> "listener_recv_search", message |-> message]
    /\ UNCHANGED <<registryVars, mdnsVars, ssdpVars, managerVars, tasks, lock, fanout>>

\* the read lock is granted to the listener: the loop over services.values() begins,
\* in one of the orders in which the map lists its values
ListenerReadLock ==
    /\ responder.pc = "locking"
    /\ CanRead(lock)
    /\ lock' = [lock EXCEPT !.readers = lock.readers \cup {"listener"}]
    /\ \E o \in Orders(DOMAIN registered_services) :
           responder' = [pc |-> "responding", search_target |-> responder.search_target,
                         pending |-> o, sent |-> <<>>, snapshot |-> registered_services]
    /\ ret' = [op |-> "listener_read_lock"]
    /\ UNCHANGED <<registryVars, mdnsVars, ssdpVars, managerVars, tasks, fanout>>

\* the loop looks at its next service: it reaches the send_response await if the
\* service matches the search target, and goes on to the next service otherwise
ListenerNext ==
    /\ responder.pc = "responding"
    /\ Len(responder.pending) > 0
    /\ LET id == Head(responder.pending) IN
       IF id \in DOMAIN registered_services
          /\ ServiceMatchesSearch(responder.search_target, registered_services[id])
       THEN responder' = [responder EXCEPT !.pc = "sending"]
       ELSE responder' = [responder EXCEPT !.pending = Tail(responder.pending)]
    /\ ret' = [op |-> "listener_next"]
    /\ UNCHANGED <<registryVars, mdnsVars, ssdpVars, managerVars, tasks, lock, fanout>>

\* send_response returns to the listener, whatever its result
ListenerSent ==
    /\ responder.pc = "sending"
    /\ responder' = [responder EXCEPT !.pc = "responding",
                                      !.sent = Append(responder.sent, Head(responder.pending)),
                                      !.pending = Tail(responder.pending)]
    /\ ret' = [op |-> "listener_sent", service |-> Head(responder.pending)]
    /\ UNCHANGED <<registryVars, mdnsVars, ssdpVars, managerVars, tasks, lock, fanout>>

\* the loop is over: the read guard is dropped and the listener returns to select!
ListenerUnlock ==
    /\ responder.pc = "responding"
    /\ Len(responder.pending) = 0
    /\ lock' = [lock EXCEPT !.readers = lock.readers \ {"listener"}]
    /\ responder' = [pc |-> "recv"]
    /\ ret' = [op |-> "listener_responded", search_target |-> responder.search_target,
               sent |-> responder.sent, snapshot |-> responder.snapshot]
    /\ UNCHANGED <<registryVars, mdnsVars, ssdpVars, managerVars, tasks, fanout>>

\* The tasks alone, as in test_ssdp_concurrent_operations
NextSsdpRegisterTasks ==
    \/ \E i \in 1..NTasks, op \in {"register", "unregister"} : TaskCall(i, op)
    \/ \E i \in 1..NTasks : TaskLock(i)
    \/ \E i \in 1..NTasks, send_ok \in BOOLEAN : TaskSent(i, send_ok)

SpecSsdpRegisterTasks == Init /\ [][NextSsdpRegisterTasks]_vars

\* The scheduler runs every task that can run, and the RwLock grants the lock to a
\* task that is waiting for it at one of the times it is free (tokio's RwLock queues
\* its waiters in order).
SpecSsdpRegisterTasksFair ==
    /\ SpecSsdpRegisterTasks
    /\ \A i \in 1..NTasks : SF_vars(TaskLock(i))
    /\ \A i \in 1..NTasks : WF_vars(\E send_ok \in BOOLEAN : TaskSent(i, send_ok))

\* The tasks and the listener
NextSsdpTasks ==
    \/ StartListener
    \/ ListenerBind(TRUE)
    \/ \E i \in 1..NTasks, op \in {"register", "unregister"} : TaskCall(i, op)
    \/ \E i \in 1..NTasks : TaskLock(i)
    \/ \E i \in 1..NTasks, send_ok \in BOOLEAN : TaskSent(i, send_ok)
    \/ \E message \in {MSearchAll, MSearchUrn} : ListenerRecvSearch(message)
    \/ ListenerReadLock
    \/ ListenerNext
    \/ ListenerSent
    \/ ListenerUnlock

SpecSsdpTasks == Init /\ [][NextSsdpTasks]_vars

---------------------------------------------------------------------------

(* The SSDP engine answering its own search: the M-SEARCH of discover_services *)
(* reaches the listener of the same engine, whose responses reach the search   *)
(* socket or are lost.                                                         *)

\* The response send_response writes for a service; the address is the LOCALHOST
\* ServiceInfo::new sets, the id stands for the Uuid's text
SendResponseText(service) ==
        <<"H", "T", "T", "P", "/", "1", ".", "1", " ", "2", "0", "0", " ", "O", "K",
          "\r", "\n", "C", "A", "C", "H", "E", "-", "C", "O", "N", "T", "R", "O", "L",
          ":", " ", "m", "a", "x", "-", "a", "g", "e", "=", "1", "8", "0", "0", "\r",
          "\n", "D", "A", "T", "E", ":", " ", "W", "e", "d", ",", " ", "0", "4", " ",
          "N", "o", "v", " ", "2", "0", "2", "6", " ", "0", "2", ":", "0", "0", ":",
          "0", "0", " ", "G", "M", "T", "\r", "\n", "E", "X", "T", ":", "\r", "\n", "L",
          "O", "C", "A", "T", "I", "O", "N", ":", " ", "h", "t", "t", "p", ":", "/",
          "/", "1", "2", "7", ".", "0", ".", "0", ".", "1", ":">>
        \o FormatNat(service.port) \o
        <<"/", "\r", "\n", "S", "E", "R", "V", "E", "R", ":", " ", "A", "u", "t", "o",
          "D", "i", "s", "c", "o", "v", "e", "r", "y", "/", "1", ".", "0", " ", "U",
          "P", "n", "P", "/", "1", ".", "0", "\r", "\n", "S", "T", ":", " ", "u", "p",
          "n", "p", ":", "r", "o", "o", "t", "d", "e", "v", "i", "c", "e", "\r", "\n",
          "U", "S", "N", ":", " ", "u", "u", "i", "d", ":">>
        \o FormatNat(service.id) \o
        <<":", ":", "u", "p", "n", "p", ":", "r", "o", "o", "t", "d", "e", "v", "i",
          "c", "e", "\r", "\n", "\r", "\n">>

\* the texts of the responses sent, as datagrams from the listener's port
RECURSIVE ResponsesOf(_)
ResponsesOf(sent) ==
    IF Len(sent) = 0 THEN <<>>
    ELSE <<Datagram(SendResponseText(sent[1].service))>> \o ResponsesOf(Tail(sent))

\* What the search for one type meets when the only device is the engine's own
\* listener: every response it sent, or none of them
LoopbackRuns(table, listening, service_type, timeout_secs) ==
    {[ok |-> TRUE, datagrams |-> <<>>]}
    \cup (IF listening
          THEN {[ok |-> TRUE, datagrams |-> ResponsesOf(sent)] :
                    sent \in HandleDatagram(table,
                                            SearchRequestText(TypeToString(service_type),
                                                              timeout_secs),
                                            PeerAddr)}
          ELSE {})

\* ssdp.discover_services(vec![service_type], Some(timeout_secs s)) on that network
SsdpDiscoverLoopback(service_type, timeout_secs) ==
    \E run \in LoopbackRuns(registered_services, listener = "listening", service_type,
                            timeout_secs) :
        SsdpDiscover(<<service_type>>, <<run>>)

NextSsdpLoopback ==
    \/ \E s \in ListenerServices, send_ok \in BOOLEAN : SsdpRegister(s, send_ok)
    \/ StartListener
    \/ \E bind_ok \in BOOLEAN : ListenerBind(bind_ok)
    \/ \E service_type \in {TypeOf(TypeUrn), TypeOf(TypeH)}, timeout_secs \in {1, 10} :
           SsdpDiscoverLoopback(service_type, timeout_secs)

SpecSsdpLoopback == Init /\ [][NextSsdpLoopback]_vars

---------------------------------------------------------------------------

(* protocols/mod.rs: ProtocolManager.  Its mDNS engine is the one modelled above *)
(* (registry `services`, `daemon`), its SSDP engine the table                    *)
(* `registered_services`; DnsSdProtocol::new always returns Err, so no manager   *)
(* holds a DNS-SD engine.                                                        *)

\* DnsSdProtocol::new
DnsSdProtocolNew == [ok |-> FALSE, err |-> "Protocol"]

\* SsdpProtocol::new
SsdpProtocolNew == [ok |-> TRUE]

\* ProtocolManager::new; enabled is config.enabled_protocols, mdns_ok whether
\* MdnsProtocol::new returned Ok
ProtocolManagerNew(enabled, mdns_ok) ==
    [ok |-> TRUE,
     protocols |-> (IF "Mdns" \in enabled /\ mdns_ok THEN {"Mdns"} ELSE {})
                       \cup (IF "Upnp" \in enabled /\ SsdpProtocolNew.ok THEN {"Upnp"} ELSE {})
                       \cup (IF "DnsSd" \in enabled /\ DnsSdProtocolNew.ok THEN {"DnsSd"}
                             ELSE {})]

\* the error of a result, "none" for Ok
ErrOf(r) == IF r.ok THEN "none" ELSE r.err

\* The result of one engine's discover_services as the manager's loop sees it
EngineResult(p, r) == [engine |-> p, ok |-> r.ok, out |-> IF r.ok THEN r.out ELSE <<>>]

\* protocol.discover_services of the engine stored under p: the possible results
EngineDiscover(p, svcs, service_types, mdns_runs, ssdp_runs, t) ==
    IF p = "Mdns"
    THEN {EngineResult(p, r) : r \in MdnsDiscoverServices(svcs, service_types, mdns_runs, t)}
    ELSE {EngineResult(p, SsdpDiscoverServices(service_types, ssdp_runs))}

\* a fan-out that gives up the services collected so far when an engine fails
RECURSIVE ExtendUntilError(_)
ExtendUntilError(results) ==
    IF Len(results) = 0 THEN <<>>
    ELSE IF results[Len(results)].ok
    THEN ExtendUntilError(SubSeq(results, 1, Len(results) - 1)) \o results[Len(results)].out
    ELSE <<>>

\* The loop of ProtocolManager::discover_services over the engines' results:
\* all_services.extend(services) for an Ok, a warning for an Err
RECURSIVE ExtendAll(_)
ExtendAll(results) ==
    IF Len(results) = 0 THEN <<>>
    ELSE ExtendAll(SubSeq(results, 1, Len(results) - 1))
             \o (IF results[Len(results)].ok THEN results[Len(results)].out ELSE <<>>)

\* What the engines listed in the order o return, one result per engine
RECURSIVE FanOut(_, _, _, _, _, _)
FanOut(o, svcs, service_types, mdns_runs, ssdp_runs, t) ==
    IF Len(o) = 0 THEN {<<>>}
    ELSE {<<r>> \o rest :
              r \in EngineDiscover(o[1], svcs, service_types, mdns_runs, ssdp_runs, t),
              rest \in FanOut(Tail(o), svcs, service_types, mdns_runs, ssdp_runs, t)}

\* ProtocolManager::discover_services: the possible results, over the orders in which
\* protocols.values() lists the engines and over what each engine returns
ManagerDiscoverServices(protos, svcs, service_types, mdns_runs, ssdp_runs, t) ==
    UNION {{[ok |-> TRUE, out |-> ExtendAll(results), results |-> results] :
                results \in FanOut(o, svcs, service_types, mdns_runs, ssdp_runs, t)} :
           o \in Orders(protos)}

\* a lookup that falls back to the mDNS engine for a type that has no engine
EngineOrMdns(protos, protocol_type) ==
    IF protocol_type \in protos THEN <<protocol_type>>
    ELSE IF "Mdns" \in protos THEN <<"Mdns">>
    ELSE <<>>

\* self.protocols.get(&protocol_type): Some(the engine's type) or None
EngineFor(protos, protocol_type) ==
    IF protocol_type \in protos THEN <<protocol_type>> ELSE <<>>

\* What a manager call returns and leaves when no engine is stored under the type
NoEngine(svcs, dmn, table) ==
    [ok |-> FALSE, err |-> "Protocol", engine |-> "none", services |-> svcs, daemon |-> dmn,
     table |-> table]

\* ProtocolManager::register_service; engine_ok is whether the engine's daemon
\* registration or announcement succeeded
ManagerRegisterService(protos, svcs, dmn, table, service, engine_ok, t) ==
    LET protocol == EngineFor(protos, service.protocol_type) IN
    IF Len(protocol) = 0 THEN NoEngine(svcs, dmn, table)
    ELSE IF protocol[1] = "Mdns"
    THEN LET r == MdnsRegisterService(svcs, dmn, service, engine_ok, t) IN
         [ok |-> r.ok, err |-> ErrOf(r), engine |-> "Mdns", services |-> r.services,
          daemon |-> r.daemon, table |-> table]
    ELSE LET r == SsdpRegisterService(table, service, engine_ok) IN
         [ok |-> r.ok, err |-> ErrOf(r), engine |-> protocol[1], services |-> svcs,
          daemon |-> dmn, table |-> r.table]

\* ProtocolManager::unregister_service
ManagerUnregisterService(protos, svcs, dmn, table, service, engine_ok) ==
    LET protocol == EngineFor(protos, service.protocol_type) IN
    IF Len(protocol) = 0 THEN NoEngine(svcs, dmn, table)
    ELSE IF protocol[1] = "Mdns"
    THEN LET r == MdnsUnregisterService(svcs, dmn, service, engine_ok) IN
         [ok |-> r.ok, err |-> ErrOf(r), engine |-> "Mdns", services |-> r.services,
          daemon |-> r.daemon, table |-> table]
    ELSE LET r == SsdpUnregisterService(table, service, engine_ok) IN
         [ok |-> r.ok, err |-> ErrOf(r), engine |-> protocol[1], services |-> svcs,
          daemon |-> dmn, table |-> r.table]

\* ProtocolManager::verify_service
ManagerVerifyService(protos, svcs, table, service, t) ==
    LET protocol == EngineFor(protos, service.protocol_type) IN
    IF Len(protocol) = 0 THEN [ok |-> FALSE, err |-> "Protocol", engine |-> "none", val |-> FALSE]
    ELSE IF protocol[1] = "Mdns"
    THEN [ok |-> TRUE, err |-> "none", engine |-> "Mdns",
          val |-> MdnsVerifyService(svcs, service, t)]
    ELSE [ok |-> TRUE, err |-> "none", engine |-> protocol[1],
          val |-> SsdpVerifyService(table, service)]

\* ProtocolManager::discover_services_with_protocol: the possible results
ManagerDiscoverWithProtocol(protos, protocol_type, svcs, service_types, mruns, sruns, t) ==
    LET protocol == EngineFor(protos, protocol_type) IN
    IF Len(protocol) = 0
    THEN {[ok |-> FALSE, err |-> "Protocol", engine |-> "none", out |-> <<>>]}
    ELSE {[ok |-> r.ok,
           err |-> IF r.ok THEN "none" ELSE IF protocol[1] = "Mdns" THEN "Mdns" ELSE "Io",
           engine |-> protocol[1], out |-> r.out] :
              r \in EngineDiscover(protocol[1], svcs, service_types, mruns, sruns, t)}

\* The sets of enabled protocols a manager is built from
ManagerConfigs ==
    {{}, {"Mdns"}, {"DnsSd"}, {"Mdns", "Upnp"}, {"Upnp", "DnsSd"}, {"Mdns", "Upnp", "DnsSd"}}

\* The services handed to the manager: two for mDNS, one for SSDP, one for DNS-SD
ManagerServices ==
    {Svc(1, NameA, TypeH, 80),
     Svc(4, NameB, TypeH, 80),
     [Svc(2, NameB, TypeUrn, 80) EXCEPT !.protocol_type = "Upnp"],
     [Svc(3, NameAB, TypeH, 81) EXCEPT !.protocol_type = "DnsSd"]}

\* what the mDNS browse of a manager's discover meets
BrowseFails == [ok |-> FALSE, events |-> <<>>]
BrowseSilent == [ok |-> TRUE, events |-> <<>>]
BrowseOne ==
    [ok |-> TRUE, events |-> <<ServiceResolved(RemoteInfo(WireType(TypeOf(TypeH)), 1))>>]

\* The discover calls made on the manager: the types, what the mDNS browse meets and
\* what the SSDP search meets
ManagerDiscoverArgs ==
    {<<<<TypeOf(TypeH)>>, <<b>>, <<u>>>> :
         b \in {BrowseFails, BrowseSilent, BrowseOne}, u \in {SearchFails, SearchOne}}

\* ProtocolManager::new(config)
ManagerNew(enabled, mdns_ok) ==
    LET r == ProtocolManagerNew(enabled, mdns_ok) IN
        /\ Len(protocols) = 0
        /\ protocols' = IF r.ok THEN <<r.protocols>> ELSE protocols
        /\ ret' = [op |-> "manager_new", enabled |-> enabled, mdns_ok |-> mdns_ok,
                   ok |-> r.ok]
        /\ UNCHANGED <<registryVars, mdnsVars, ssdpVars, discovery, sdreg, taskVars>>

\* manager.register_service(service)
ManagerRegister(service, engine_ok) ==
    LET r == ManagerRegisterService(protocols[1], services, daemon, registered_services,
                                    service, engine_ok, now)
    IN  /\ Len(protocols) = 1
        /\ services' = r.services
        /\ daemon' = r.daemon
        /\ registered_services' = r.table
        /\ ret' = [op |-> "manager_register_service", service |-> service, ok |-> r.ok,
                   err |-> r.err, engine |-> r.engine]
        /\ UNCHANGED <<now, added, mreg, munreg, lastCall, listenerVars, managerVars, taskVars>>

\* manager.unregister_service(&service)
ManagerUnregister(service, engine_ok) ==
    LET r == ManagerUnregisterService(protocols[1], services, daemon, registered_services,
                                      service, engine_ok)
    IN  /\ Len(protocols) = 1
        /\ services' = r.services
        /\ daemon' = r.daemon
        /\ registered_services' = r.table
        /\ ret' = [op |-> "manager_unregister_service", service |-> service, ok |-> r.ok,
                   err |-> r.err, engine |-> r.engine]
        /\ UNCHANGED <<now, added, mreg, munreg, lastCall, listenerVars, managerVars, taskVars>>

\* manager.verify_service(&service)
ManagerVerify(service) ==
    LET r == ManagerVerifyService(protocols[1], services, registered_services, service, now)
    IN  /\ Len(protocols) = 1
        /\ ret' = [op |-> "manager_verify_service", service |-> service, ok |-> r.ok,
                   err |-> r.err, engine |-> r.engine, val |-> r.val]
        /\ UNCHANGED <<registryVars, mdnsVars, ssdpVars, managerVars, taskVars>>

\* manager.discover_services_with_protocol(protocol_type, service_types, timeout)
ManagerDiscoverWith(protocol_type, service_types, mdns_runs, ssdp_runs) ==
    /\ Len(protocols) = 1
    /\ \E r \in ManagerDiscoverWithProtocol(protocols[1], protocol_type, services,
                                            service_types, mdns_runs, ssdp_runs, now) :
           ret' = [op |-> "manager_discover_services_with_protocol",
                   protocol_type |-> protocol_type, ok |-> r.ok, err |-> r.err,
                   engine |-> r.engine, out |-> r.out]
    /\ UNCHANGED <<registryVars, mdnsVars, ssdpVars, managerVars, taskVars>>

\* manager.discover_services(service_types, timeout)
ManagerDiscover(service_types, mdns_runs, ssdp_runs) ==
    /\ Len(protocols) = 1
    /\ \E r \in ManagerDiscoverServices(protocols[1], services, service_types, mdns_runs,
                                        ssdp_runs, now) :
           ret' = [op |-> "manager_discover_services", ok |-> r.ok, out |-> r.out,
                   results |-> r.results]
    /\ UNCHANGED <<registryVars, mdnsVars, ssdpVars, managerVars, taskVars>>

NextManager ==
    \/ \E enabled \in ManagerConfigs, mdns_ok \in BOOLEAN : ManagerNew(enabled, mdns_ok)
    \/ \E service \in ManagerServices, engine_ok \in BOOLEAN :
           ManagerRegister(service, engine_ok)
    \/ \E service \in ManagerServices, engine_ok \in BOOLEAN :
           ManagerUnregister(service, engine_ok)
    \/ \E service \in ManagerServices : ManagerVerify(service)
    \/ \E protocol_type \in ProtocolType, a \in ManagerDiscoverArgs :
           ManagerDiscoverWith(protocol_type, a[1], a[2], a[3])
    \/ \E a \in ManagerDiscoverArgs : ManagerDiscover(a[1], a[2], a[3])

SpecManager == Init /\ [][NextManager]_vars

---------------------------------------------------------------------------
(* protocols/mod.rs: ProtocolManager::discover_services step by step.  Each *)
(* engine's discover_services is a call that begins and, after its awaits,  *)
(* ends; other calls on the manager may be made in between.                 *)

\* manager.discover_services(service_types, timeout) is called: the loop is entered
\* with the engines in the order of protocols.values()
ManagerDiscoverBegin(service_types, mdns_runs, ssdp_runs) ==
    /\ Len(protocols) = 1
    /\ Len(fanout) = 0
    /\ \E o \in Orders(protocols[1]) :
           fanout' = <<[types |-> service_types, mdns_runs |-> mdns_runs,
                        ssdp_runs |-> ssdp_runs, pending |-> o, running |-> <<>>,
                        results |-> <<>>]>>
    /\ ret' = [op |-> "manager_discover_begin"]
    /\ UNCHANGED <<registryVars, mdnsVars, ssdpVars, managerVars, tasks, lock, responder>>

\* the loop calls protocol.discover_services of the next engine
EngineDiscoverBegin ==
    /\ Len(fanout) = 1
    /\ Len(fanout[1].running) = 0
    /\ Len(fanout[1].pending) > 0
    /\ fanout' = <<[fanout[1] EXCEPT !.running = <<Head(fanout[1].pending)>>,
                                     !.pending = Tail(fanout[1].pending)]>>
    /\ ret' = [op |-> "engine_discover_begin", engine |-> Head(fanout[1].pending)]
    /\ UNCHANGED <<registryVars, mdnsVars, ssdpVars, managerVars, tasks, lock, responder>>

\* the engine's discover_services returns to the loop, which keeps its result
EngineDiscoverEnd ==
    /\ Len(fanout) = 1
    /\ Len(fanout[1].running) = 1
    /\ \E r \in EngineDiscover(fanout[1].running[1], services, fanout[1].types,
                               fanout[1].mdns_runs, fanout[1].ssdp_runs, now) :
           /\ fanout' = <<[fanout[1] EXCEPT !.running = <<>>,
                                            !.results = Append(fanout[1].results, r)]>>
           /\ ret' = [op |-> "engine_discover_end", engine |-> r.engine, ok |-> r.ok]
    /\ UNCHANGED <<registryVars, mdnsVars, ssdpVars, managerVars, tasks, lock, responder>>

\* the loop is over: Ok(all_services)
ManagerDiscoverEnd ==
    /\ Len(fanout) = 1
    /\ Len(fanout[1].running) = 0
    /\ Len(fanout[1].pending) = 0
    /\ fanout' = <<>>
    /\ ret' = [op |-> "manager_discover_services", ok |-> TRUE,
               out |-> ExtendAll(fanout[1].results), results |-> fanout[1].results]
    /\ UNCHANGED <<registryVars, mdnsVars, ssdpVars, managerVars, tasks, lock, responder>>

NextFanout ==
    \/ \E enabled \in ManagerConfigs, mdns_ok \in BOOLEAN : ManagerNew(enabled, mdns_ok)
    \/ \E service \in ManagerServices, engine_ok \in BOOLEAN :
           ManagerRegister(service, engine_ok)
    \/ \E a \in ManagerDiscoverArgs : ManagerDiscoverBegin(a[1], a[2], a[3])
    \/ EngineDiscoverBegin
    \/ EngineDiscoverEnd
    \/ ManagerDiscoverEnd

SpecFanout == Init /\ [][NextFanout]_vars

---------------------------------------------------------------------------

(* The engines and the manager side by side: services are registered with the *)
(* engines, and discover_services is called on each engine and on the manager. *)

FrameServices == {Svc(1, NameA, TypeH, 80), Svc(2, NameB, TypeUrn, 80)}

NextFrame ==
    \/ \E enabled \in {{"Mdns", "Upnp"}, {"Upnp", "DnsSd"}} : ManagerNew(enabled, TRUE)
    \/ \E daemon_ok \in BOOLEAN : MdnsRegister(Svc(1, NameA, TypeH, 80), daemon_ok)
    \/ \E send_ok \in BOOLEAN : SsdpRegister(Svc(2, NameB, TypeUrn, 80), send_ok)
    \/ \E a \in SsdpDiscoverArgs : SsdpDiscover(a[1], a[2])
    \/ \E run \in {BrowseFails, BrowseSilent, BrowseOne} : MdnsDiscover(<<TypeOf(TypeH)>>, <<run>>)
    \/ \E protocol_type \in {"Mdns", "Upnp"} :
           ManagerDiscoverWith(protocol_type, <<TypeOf(TypeH)>>, <<BrowseOne>>, <<SearchOne>>)
    \/ \E a \in ManagerDiscoverArgs : ManagerDiscover(a[1], a[2], a[3])

SpecFrame == Init /\ [][NextFrame]_vars

---------------------------------------------------------------------------

(* config.rs: DiscoveryConfig.  Durations are in quarter seconds. *)

\* DiscoveryConfig::new (Default)
DiscoveryConfigNew ==
    [service_types |-> <<>>, timeout |-> <<120>>, max_services |-> 1000,
     enabled_protocols |-> {"Mdns"}, enable_ipv4 |-> TRUE, enable_ipv6 |-> FALSE,
     filter |-> <<>>]

\* DiscoveryConfig::validate
Validate(config) ==
    IF Len(config.timeout) = 1 /\ AsSecs(config.timeout[1]) = 0
    THEN [ok |-> FALSE, err |-> "Configuration"]
    ELSE IF ~config.enable_ipv4 /\ ~config.enable_ipv6
    THEN [ok |-> FALSE, err |-> "Configuration"]
    ELSE IF config.enabled_protocols = {} THEN [ok |-> FALSE, err |-> "Configuration"]
    ELSE [ok |-> TRUE, err |-> "none"]

\* a test that takes every protocol as enabled
ProtocolAlwaysEnabled(config, protocol) == TRUE

\* DiscoveryConfig::is_protocol_enabled
IsProtocolEnabled(config, protocol) == protocol \in config.enabled_protocols

---------------------------------------------------------------------------
(* types.rs: DiscoveryFilter.  The services of the model carry no attributes, *)
(* and the filters no attribute patterns.                                     *)

\* DiscoveryFilter::matches
FilterMatches(filter, service) ==
    IF Len(filter.service_type_filters) > 0
       /\ ~(\E i \in 1..Len(filter.service_type_filters) :
               filter.service_type_filters[i] = service.service_type)
    THEN FALSE
    ELSE IF Len(filter.protocol_filters) > 0
            /\ ~(\E i \in 1..Len(filter.protocol_filters) :
                    filter.protocol_filters[i] = service.protocol_type)
    THEN FALSE
    ELSE TRUE

---------------------------------------------------------------------------
(* discovery.rs: ServiceDiscovery.  Its protocol manager is the one modelled *)
(* above; its two caches are maps from the service name.                     *)

\* ServiceDiscovery::new; mdns_ok is whether MdnsProtocol::new returned Ok
ServiceDiscoveryNew(config, mdns_ok) ==
    LET v == Validate(config)
        protocol_manager == ProtocolManagerNew(config.enabled_protocols, mdns_ok)
    IN  IF ~v.ok THEN [ok |-> FALSE, err |-> v.err]
        ELSE IF ~protocol_manager.ok THEN [ok |-> FALSE, err |-> "Protocol"]
        ELSE [ok |-> TRUE, err |-> "none", protocols |-> protocol_manager.protocols,
              discovery |-> [config |-> config, discovered_services |-> EmptyMap,
                             registered_services |-> EmptyMap]]

\* services.retain(|service| filter.matches(service))
RECURSIVE Retain(_, _)
Retain(list, filter) ==
    IF Len(list) = 0 THEN <<>>
    ELSE (IF FilterMatches(filter, list[1]) THEN <<list[1]>> ELSE <<>>)
             \o Retain(Tail(list), filter)

\* the loop discovered.insert(service.name().to_string(), service.clone())
RECURSIVE InsertByName(_, _)
InsertByName(cache, list) ==
    IF Len(list) = 0 THEN cache
    ELSE InsertByName(MapPut(cache, list[1].name, list[1]), Tail(list))

\* ServiceDiscovery::discover_services: the possible results; invoked is whether the
\* protocol manager was called, cache the discovered-services cache it leaves
SdDiscoverServices(d, protos, svcs, protocol_type, mruns, sruns, t) ==
    LET service_types == d.config.service_types
        fail(err, invoked) ==
            [ok |-> FALSE, err |-> err, out |-> <<>>, invoked |-> invoked,
             cache |-> d.discovered_services]
    IN  IF Len(service_types) = 0 THEN {fail("Configuration", FALSE)}
        ELSE IF Len(protocol_type) = 1 /\ ~IsProtocolEnabled(d.config, protocol_type[1])
        THEN {fail("Protocol", FALSE)}
        ELSE {IF ~r.ok THEN fail(r.err, TRUE)
              ELSE LET filtered == IF Len(d.config.filter) = 1
                                   THEN Retain(r.out, d.config.filter[1])
                                   ELSE r.out
                       max_services == d.config.max_services
                       limited == IF max_services > 0 /\ Len(filtered) > max_services
                                  THEN SubSeq(filtered, 1, max_services)
                                  ELSE filtered
                   IN  [ok |-> TRUE, err |-> "none", out |-> limited, invoked |-> TRUE,
                        cache |-> InsertByName(d.discovered_services, limited)] :
                  r \in IF Len(protocol_type) = 1
                        THEN ManagerDiscoverWithProtocol(protos, protocol_type[1], svcs,
                                                         service_types, mruns, sruns, t)
                        ELSE ManagerDiscoverServices(protos, svcs, service_types, mruns,
                                                     sruns, t)}

\* ServiceDiscovery::register_service
SdRegisterService(d, protos, svcs, dmn, table, service, engine_ok, t) ==
    LET r == ManagerRegisterService(protos, svcs, dmn, table, service, engine_ok, t) IN
    [ok |-> r.ok, err |-> r.err, services |-> r.services, daemon |-> r.daemon,
     table |-> r.table,
     registered_services |-> IF r.ok
                             THEN MapPut(d.registered_services, service.name, service)
                             ELSE d.registered_services]

\* ServiceDiscovery::unregister_service
SdUnregisterService(d, protos, svcs, dmn, table, service, engine_ok) ==
    LET r == ManagerUnregisterService(protos, svcs, dmn, table, service, engine_ok) IN
    [ok |-> r.ok, err |-> r.err, services |-> r.services, daemon |-> r.daemon,
     table |-> r.table,
     registered_services |-> IF r.ok THEN MapRemove(d.registered_services, service.name)
                             ELSE d.registered_services]

\* ServiceDiscovery::get_registered_services, as a set
GetRegisteredServices(d) ==
    {d.registered_services[k] : k \in DOMAIN d.registered_services}

\* The configurations a ServiceDiscovery is built from: the default, and
\* with_service_type(_h._t) followed by one or two other builder calls
ConfigH == [DiscoveryConfigNew EXCEPT !.service_types = <<TypeOf(TypeH)>>]

DiscoveryConfigs ==
    {DiscoveryConfigNew,
     [ConfigH EXCEPT !.timeout = <<0>>],
     [ConfigH EXCEPT !.timeout = <<2>>],
     [ConfigH EXCEPT !.timeout = <<4>>, !.enabled_protocols = {"Mdns", "Upnp"}],
     [ConfigH EXCEPT !.enable_ipv4 = FALSE],
     [ConfigH EXCEPT !.enable_ipv4 = FALSE, !.enable_ipv6 = TRUE, !.max_services = 1],
     [ConfigH EXCEPT !.enabled_protocols = {}],
     [ConfigH EXCEPT !.enabled_protocols = {"Upnp", "DnsSd"},
                     !.filter = <<[service_type_filters |-> <<>>,
                                   protocol_filters |-> <<"Upnp">>]>>]}

\* The services handed to the front: two for mDNS, and one for SSDP that has the
\* name of the second
SdServices ==
    {Svc(1, NameA, TypeH, 80),
     Svc(4, NameB, TypeH, 80),
     [Svc(2, NameB, TypeUrn, 80) EXCEPT !.protocol_type = "Upnp"]}

\* What the discover calls made on the front meet: the mDNS browse and the SSDP search
SdDiscoverArgs ==
    {<<<<BrowseSilent>>, <<SearchOne>>>>,
     <<<<BrowseOne>>, <<SearchFails>>>>,
     <<<<BrowseFails>>, <<SearchSilent>>>>}

\* ServiceDiscovery::new(config)
SdNew(config, mdns_ok) ==
    LET r == ServiceDiscoveryNew(config, mdns_ok) IN
        /\ Len(discovery) = 0
        /\ discovery' = IF r.ok THEN <<r.discovery>> ELSE discovery
        /\ protocols' = IF r.ok THEN <<r.protocols>> ELSE protocols
        /\ ret' = [op |-> "sd_new", config |-> config, ok |-> r.ok, err |-> r.err]
        /\ UNCHANGED <<registryVars, mdnsVars, ssdpVars, sdreg, taskVars>>

\* discovery.discover_services(protocol_type)
SdDiscover(protocol_type, mdns_runs, ssdp_runs) ==
    /\ Len(discovery) = 1
    /\ \E r \in SdDiscoverServices(discovery[1], protocols[1], services, protocol_type,
                                   mdns_runs, ssdp_runs, now) :
           /\ discovery' = <<[discovery[1] EXCEPT !.discovered_services = r.cache]>>
           /\ ret' = [op |-> "sd_discover_services", protocol_type |-> protocol_type,
                      ok |-> r.ok, err |-> r.err, out |-> r.out, invoked |-> r.invoked]
    /\ UNCHANGED <<registryVars, mdnsVars, ssdpVars, protocols, sdreg, taskVars>>

\* discovery.register_service(service)
SdRegister(service, engine_ok) ==
    LET r == SdRegisterService(discovery[1], protocols[1], services, daemon,
                               registered_services, service, engine_ok, now)
    IN  /\ Len(discovery) = 1
        /\ services' = r.services
        /\ daemon' = r.daemon
        /\ registered_services' = r.table
        /\ discovery' = <<[discovery[1] EXCEPT !.registered_services = r.registered_services]>>
        /\ sdreg' = IF r.ok THEN sdreg \cup {service} ELSE sdreg
        /\ ret' = [op |-> "sd_register_service", service |-> service, ok |-> r.ok,
                   err |-> r.err]
        /\ UNCHANGED <<now, added, mreg, munreg, lastCall, listenerVars, protocols, taskVars>>

\* discovery.unregister_service(&service)
SdUnregister(service, engine_ok) ==
    LET r == SdUnregisterService(discovery[1], protocols[1], services, daemon,
                                 registered_services, service, engine_ok)
    IN  /\ Len(discovery) = 1
        /\ services' = r.services
        /\ daemon' = r.daemon
        /\ registered_services' = r.table
        /\ discovery' = <<[discovery[1] EXCEPT !.registered_services = r.registered_services]>>
        /\ sdreg' = IF r.ok THEN sdreg \ {service} ELSE sdreg
        /\ ret' = [op |-> "sd_unregister_service", service |-> service, ok |-> r.ok,
                   err |-> r.err]
        /\ UNCHANGED <<now, added, mreg, munreg, lastCall, listenerVars, protocols, taskVars>>

NextDiscovery ==
    \/ \E config \in DiscoveryConfigs, mdns_ok \in BOOLEAN : SdNew(config, mdns_ok)
    \/ \E protocol_type \in {<<>>, <<"Upnp">>}, a \in SdDiscoverArgs :
           SdDiscover(protocol_type, a[1], a[2])
    \/ \E service \in SdServices, engine_ok \in BOOLEAN : SdRegister(service, engine_ok)
    \/ \E service \in SdServices, engine_ok \in BOOLEAN : SdUnregister(service, engine_ok)

SpecDiscovery == Init /\ [][NextDiscovery]_vars

---------------------------------------------------------------------------
(* discovery.rs: update_config.  The new protocol manager has new engines: *)
(* their tables, daemon and registry start empty.                           *)

\* discovery.update_config(config)
SdUpdateConfig(config, mdns_ok) ==
    LET protocol_manager == ProtocolManagerNew(config.enabled_protocols, mdns_ok) IN
        /\ Len(discovery) = 1
        /\ discovery' = <<[discovery[1] EXCEPT !.config = config]>>
        /\ IF protocol_manager.ok
           THEN /\ protocols' = <<protocol_manager.protocols>>
                /\ services' = EmptyMap
                /\ added' = EmptyMap
                /\ daemon' = EmptyMap
                /\ mreg' = {}
                /\ munreg' = {}
                /\ registered_services' = EmptyMap
                /\ lastCall' = EmptyMap
           ELSE UNCHANGED <<protocols, services, added, mdnsVars, registered_services,
                            lastCall>>
        /\ ret' = [op |-> "sd_update_config", config |-> config, ok |-> protocol_manager.ok,
                   err |-> IF protocol_manager.ok THEN "none" ELSE "Protocol"]
        /\ UNCHANGED <<now, listenerVars, sdreg, taskVars>>

NextUpdateConfig ==
    \/ \E config \in DiscoveryConfigs, mdns_ok \in BOOLEAN : SdNew(config, mdns_ok)
    \/ \E config \in DiscoveryConfigs, mdns_ok \in BOOLEAN : SdUpdateConfig(config, mdns_ok)
    \/ \E service \in SdServices, engine_ok \in BOOLEAN : SdRegister(service, engine_ok)

SpecUpdateConfig == Init /\ [][NextUpdateConfig]_vars

---------------------------------------------------------------------------

(* The registry's claims.  Stale and Satisfies restate expiry and the filter *)
(* predicates from their definitions in the specification, apart from the   *)
(* operators above.                                                          *)

\* an entry whose ttl has run out at Instant t
Stale(e, t) == Len(e.ttl) = 1 /\ t > e.timestamp + e.ttl[1]

\* every predicate set in filter f holds of an entry of service s, locality loc and
\* protocol p that was stored at Instant t0, at Instant t
Satisfies(f, s, loc, p, t0, t) ==
    /\ Len(f.service_types) = 1 =>
          \E i \in 1..Len(f.service_types[1]) : f.service_types[1][i] = s.service_type
    /\ Len(f.protocols) = 1 => \E i \in 1..Len(f.protocols[1]) : f.protocols[1][i] = p
    /\ Len(f.name_contains) = 1 =>
          \E i \in 0..Len(s.name) : \E j \in i..Len(s.name) :
              SubSeq(s.name, i + 1, j) = f.name_contains[1]
    /\ f.local_only => loc
    /\ f.discovered_only => ~loc
    /\ Len(f.max_age) = 1 => t - t0 <= f.max_age[1]

\* C4: the number of stored entries never exceeds max_services.
C4_SizeBounded == Cardinality(DOMAIN services) <= MaxServices

\* C5: a service that register_local_service stored is returned by get_local_services
\* right after the call, and stays returned across every later call except an
\* unregister_local_service of its composite key.
C5_LocalUntilUnregistered ==
    /\ [](ret.op = "register_local_service" /\ ret.ok
            => ret.service \in GetLocalServices(services, now))
    /\ [][\A s \in GetLocalServices(services, now) :
            \/ ret'.op = "unregister_local_service" /\ ret'.key = ServiceId(s)
            \/ s \in GetLocalServices(services', now')]_vars

\* C6: a service added by add_discovered_service(s, p, ttl) at t0, the key's entry
\* not replaced or unregistered since, is stored and returned by find_services for
\* exactly the filters it satisfies while now < t0 + ttl, is in no find_services
\* result once now > t0 + ttl, and is removed and counted by a cleanup_expired call
\* made after expiry while it is still stored.
C6_TtlWindow ==
    /\ [](\A k \in DOMAIN added :
            LET a == added[k] IN
            /\ now < a.t0 + a.ttl =>
                  /\ k \in DOMAIN services
                  /\ services[k].service = a.service
                  /\ ~services[k].is_local
                  /\ ret.op = "find_services" =>
                        (a.service \in ret.out
                            <=> Satisfies(ret.filter, a.service, FALSE,
                                          services[k].protocol, a.t0, now))
            /\ now > a.t0 + a.ttl =>
                  (ret.op = "find_services" => a.service \notin ret.out))
    /\ [][ret'.op = "cleanup_expired" =>
            \A k \in (DOMAIN added) \cap (DOMAIN services) :
                now > added[k].t0 + added[k].ttl =>
                    /\ k \notin DOMAIN services'
                    /\ ret'.removed_count >= 1]_vars

\* a discovered service is being returned within its ttl, one clock unit after it was added
C6_Witness_Live ==
    /\ ret.op = "find_services"
    /\ \E k \in DOMAIN added :
          /\ added[k].t0 < now /\ now < added[k].t0 + added[k].ttl
          /\ added[k].service \in ret.out

\* C7: an insertion under a composite key already present succeeds and replaces the
\* entry: the keys are the same afterwards, the key carries the inserted service and
\* every other entry is unchanged.
C7_InsertReplaces ==
    [][ret'.op \in {"register_local_service", "add_discovered_service"}
          /\ ret'.key \in DOMAIN services
        => /\ ret'.ok
           /\ DOMAIN services' = DOMAIN services
           /\ services'[ret'.key].service = ret'.service
           /\ \A k \in (DOMAIN services) \ {ret'.key} : services'[k] = services[k]]_vars

\* C8: at max_services entries, add_discovered_service of a new key either removes
\* exactly one entry, an expired one of least timestamp, and inserts the new entry,
\* or, no entry being expired, fails with a Configuration error and changes nothing;
\* and no add_discovered_service removes a local or a non-expired entry.
C8_EvictOldestExpiredOrFail ==
    [][ret'.op = "add_discovered_service" =>
        /\ \A k \in (DOMAIN services) \ (DOMAIN services') :
              ~services[k].is_local /\ Stale(services[k], now)
        /\ Cardinality(DOMAIN services) = MaxServices /\ ret'.key \notin DOMAIN services =>
              \/ /\ ret'.ok
                 /\ \E v \in DOMAIN services :
                       /\ Stale(services[v], now)
                       /\ \A j \in DOMAIN services :
                             Stale(services[j], now)
                                 => services[v].timestamp <= services[j].timestamp
                       /\ DOMAIN services' = ((DOMAIN services) \ {v}) \cup {ret'.key}
                       /\ \A k \in (DOMAIN services) \ {v} : services'[k] = services[k]
                 /\ services'[ret'.key].service = ret'.service
                 /\ ~services'[ret'.key].is_local
              \/ /\ ~ret'.ok
                 /\ ret'.err = "Configuration"
                 /\ \A j \in DOMAIN services : ~Stale(services[j], now)
                 /\ services' = services]_vars

\* an add at capacity has evicted one of two expired entries of different timestamps
C8_Witness_Evicted ==
    /\ ret.op = "add_discovered_service" /\ ret.ok
    /\ Len(ret.evicted) = 1
    /\ Cardinality(DOMAIN services) = MaxServices
    /\ \E k \in DOMAIN services : k # ret.key /\ Stale(services[k], now)

\* C9: cleanup_expired removes exactly the entries expired at the call, returns how
\* many it removed, and leaves every other entry, the local ones among them, as it was.
C9_CleanupExact ==
    [][ret'.op = "cleanup_expired" =>
        /\ DOMAIN services' = {k \in DOMAIN services : ~Stale(services[k], now)}
        /\ \A k \in DOMAIN services' : services'[k] = services[k]
        /\ \A k \in DOMAIN services : services[k].is_local => k \in DOMAIN services'
        /\ ret'.removed_count
              = Cardinality({k \in DOMAIN services : Stale(services[k], now)})]_vars

\* a cleanup has removed an entry and left a local and a live discovered entry
C9_Witness_Removed ==
    /\ ret.op = "cleanup_expired" /\ ret.removed_count >= 1
    /\ \E k \in DOMAIN services : services[k].is_local
    /\ \E k \in DOMAIN services : ~services[k].is_local

\* C10: find_services returns exactly the services of the stored entries that are not
\* expired and satisfy every predicate set in the filter; the empty filter returns
\* every non-expired entry, local_only with discovered_only returns nothing.
C10_FindExact ==
    ret.op = "find_services" =>
        /\ ret.out = {services[k].service :
                        k \in {x \in DOMAIN services :
                                 /\ ~Stale(services[x], now)
                                 /\ Satisfies(ret.filter, services[x].service,
                                              services[x].is_local, services[x].protocol,
                                              services[x].timestamp, now)}}
        /\ ret.filter = FilterNew =>
              ret.out = {services[k].service :
                           k \in {x \in DOMAIN services : ~Stale(services[x], now)}}
        /\ ret.filter.local_only /\ ret.filter.discovered_only => ret.out = {}

\* a name filter has returned one live entry and left out an expired one that
\* satisfies it and a live one that does not
C10_Witness_Filtered ==
    /\ ret.op = "find_services"
    /\ Len(ret.filter.name_contains) = 1
    /\ ret.out # {}
    /\ \E k \in DOMAIN services :
          Stale(services[k], now)
              /\ Contains(services[k].service.name, ret.filter.name_contains[1])
    /\ \E k \in DOMAIN services :
          ~Stale(services[k], now)
              /\ ~Contains(services[k].service.name, ret.filter.name_contains[1])

---------------------------------------------------------------------------
(* The SSDP engine's claims *)

\* C3: verify_service(s) is true iff s.id is a key of the registered-services table;
\* it is false when no register_service has named s.id, true when the last call on
\* s.id is a register_service that returned Ok (the first or a repeated one), and
\* false when the last call on s.id is an unregister_service.
C3_VerifyIffRegistered ==
    ret.op = "ssdp_verify_service" =>
        /\ ret.val = (\E k \in DOMAIN registered_services : k = ret.service.id)
        /\ CallOf(ret.service.id).last = "none" => ~ret.val
        /\ CallOf(ret.service.id).last = "register_ok" => ret.val
        /\ CallOf(ret.service.id).last = "unregister" => ~ret.val

\* verify_service returns false after one unregister_service that followed a repeated
\* register_service, another service still being registered
C3_Witness_Unregistered ==
    /\ ret.op = "ssdp_verify_service" /\ ~ret.val
    /\ CallOf(ret.service.id) = [last |-> "unregister", regs |-> MaxRepeat]
    /\ DOMAIN registered_services # {}

---------------------------------------------------------------------------
(* The mDNS engine's claims.  mreg holds the services whose register_service       *)
(* returned Ok with no Ok unregister_service of the same name, type and port       *)
(* since; munreg holds the services whose unregister_service returned Ok with no   *)
(* Ok register_service of the same name, type and port since.                      *)

\* a type's text without one trailing ".local."
StripLocal(str) ==
    IF EndsWith(str, DotLocalDot) THEN SubSeq(str, 1, Len(str) - Len(DotLocalDot)) ELSE str

\* the requested types include the service's type, equal up to the ".local." suffix
Requested(types, s) ==
    \E i \in 1..Len(types) :
        StripLocal(TypeToString(types[i])) = StripLocal(TypeToString(s.service_type))

\* C1: after register_service(s) returned Ok and with no unregister_service(s) since,
\* every successful discover_services whose requested types include s.service_type
\* (equal up to the ".local." suffix) returns a list with an entry whose name and
\* port are those of s, whatever the daemon delivered.
C1_RegisteredIsDiscovered ==
    (ret.op = "mdns_discover_services" /\ ret.ok) =>
        \A s \in mreg :
            Requested(ret.types, s) =>
                \E j \in 1..Len(ret.out) :
                    ret.out[j].name = s.name /\ ret.out[j].port = s.port

\* a successful discover whose result holds no entry from the network and which
\* returned a registered service whose type text differs from the requested one
C1_Witness_MergedOnly ==
    /\ ret.op = "mdns_discover_services" /\ ret.ok
    /\ \A j \in 1..Len(ret.out) : ret.out[j].id < NetIdBase
    /\ \E s \in mreg :
           /\ Requested(ret.types, s)
           /\ \A i \in 1..Len(ret.types) : ret.types[i] # s.service_type
           /\ \E j \in 1..Len(ret.out) : ret.out[j] = s

\* C2 as stated: after unregister_service(s) returned Ok, verify_service(s) returns
\* false until s is registered again, whatever else is registered.
C2_VerifyFalseAfterUnregister ==
    (ret.op = "mdns_verify_service" /\ ret.service \in munreg) => ~ret.val

\* C2, amended: after unregister_service(s) returned Ok and until s is registered
\* again, verify_service(s) returns true exactly when a service still registered on
\* the engine has the name of s; it returns false when none has.
C2_VerifyFalseUnlessNameShared ==
    (ret.op = "mdns_verify_service" /\ ret.service \in munreg) =>
        (ret.val <=> \E x \in mreg : x.name = ret.service.name)

\* verify of an unregistered service answers false while another service is registered
C2_Witness_FalseWithOthers ==
    /\ ret.op = "mdns_verify_service"
    /\ ret.service \in munreg
    /\ ~ret.val
    /\ mreg # {}

---------------------------------------------------------------------------
(* The registry's error handling *)

\* C11: unregister_local_service(key) returns a ServiceNotFound error and leaves the
\* registry unchanged when no entry is stored under key; otherwise it removes exactly
\* the entry under key, leaves every other entry unchanged and returns Ok.
C11_UnregisterExact ==
    [][ret'.op = "unregister_local_service" =>
        IF ret'.key \in DOMAIN services
        THEN /\ ret'.ok
             /\ DOMAIN services' = (DOMAIN services) \ {ret'.key}
             /\ \A k \in DOMAIN services' : services'[k] = services[k]
        ELSE /\ ~ret'.ok
             /\ ret'.err = "ServiceNotFound"
             /\ services' = services]_vars

\* an unregister_local_service of an absent key has failed on a registry that holds
\* entries
C11_Witness_NotFound ==
    /\ ret.op = "unregister_local_service"
    /\ ~ret.ok
    /\ ret.err = "ServiceNotFound"
    /\ services # EmptyMap

---------------------------------------------------------------------------
(* The engines' discovery results *)

\* C12: every ServiceInfo in a list returned by an engine's discover_services has
\* the protocol_type of the engine: Mdns from the mDNS engine, Upnp from the SSDP
\* engine.
C12_DiscoveredCarryEngineType ==
    /\ ret.op = "mdns_discover_services" =>
           \A j \in 1..Len(ret.out) : ret.out[j].protocol_type = "Mdns"
    /\ ret.op = "ssdp_discover_services" =>
           \A j \in 1..Len(ret.out) : ret.out[j].protocol_type = "Upnp"

---------------------------------------------------------------------------
(* The SSDP listener's claims *)

---------------------------------------------------------------------------
(* The protocol manager's claims *)

\* the lists of the results that are Ok, one after the other
RECURSIVE Concat(_)
Concat(results) ==
    IF Len(results) = 0 THEN <<>>
    ELSE (IF results[1].ok THEN results[1].out ELSE <<>>) \o Concat(Tail(results))

\* C14: ProtocolManager::discover_services always returns Ok; every engine of the
\* manager is asked once, and the result is the lists of the engines that returned Ok
\* put together, no entry dropped or deduplicated; an engine that returned an error
\* contributes nothing.
C14_FanOutMergesAll ==
    ret.op = "manager_discover_services" =>
        /\ ret.ok
        /\ Len(ret.results) = Cardinality(protocols[1])
        /\ {ret.results[i].engine : i \in 1..Len(ret.results)} = protocols[1]
        /\ ret.out = Concat(ret.results)

\* a fan-out in which one engine failed and the other returned an entry
C14_Witness_OneEngineFailed ==
    /\ ret.op = "manager_discover_services"
    /\ \E i \in 1..Len(ret.results) : ~ret.results[i].ok
    /\ Len(ret.out) > 0

\* the protocol type a single-engine manager call asks for
Requested15(r) ==
    IF r.op = "manager_discover_services_with_protocol" THEN r.protocol_type
    ELSE r.service.protocol_type

\* C15: register_service, unregister_service, verify_service and
\* discover_services_with_protocol of the manager invoke the engine stored under the
\* requested type and return its result, the other engine being left as it was; with
\* no engine under that type they return a Protocol error and change no engine.
C15_DispatchByType ==
    [][ret'.op \in {"manager_register_service", "manager_unregister_service",
                    "manager_verify_service", "manager_discover_services_with_protocol"} =>
        IF Requested15(ret') \in protocols[1]
        THEN /\ ret'.engine = Requested15(ret')
             /\ ret'.err # "Protocol"
             /\ ret'.engine = "Mdns" => registered_services' = registered_services
             /\ ret'.engine = "Upnp" => services' = services /\ daemon' = daemon
             /\ ret'.op = "manager_register_service" /\ ret'.ok =>
                    IF ret'.engine = "Mdns" THEN ServiceId(ret'.service) \in DOMAIN services'
                    ELSE ret'.service.id \in DOMAIN registered_services'
             /\ ret'.op = "manager_unregister_service" /\ ret'.ok =>
                    IF ret'.engine = "Mdns"
                    THEN ServiceId(ret'.service) \notin DOMAIN services'
                    ELSE ret'.service.id \notin DOMAIN registered_services'
             /\ ret'.op = "manager_verify_service" =>
                    /\ ret'.ok
                    /\ ret'.val = IF ret'.engine = "Mdns"
                                  THEN MdnsVerifyService(services, ret'.service, now)
                                  ELSE SsdpVerifyService(registered_services, ret'.service)
        ELSE /\ ~ret'.ok
             /\ ret'.err = "Protocol"
             /\ ret'.engine = "none"
             /\ services' = services /\ daemon' = daemon
             /\ registered_services' = registered_services]_vars

\* a service has been registered with the SSDP engine through the manager while the
\* mDNS engine held a service
C15_Witness_SsdpOnly ==
    /\ ret.op = "manager_register_service"
    /\ ret.engine = "Upnp"
    /\ ret.ok
    /\ services # EmptyMap

\* C16: ProtocolManager::new creates engines only for the enabled protocols, returns
\* Ok when an engine was constructed and an error when the set of engines is empty.
C16_NewFailsWithoutEngine ==
    ret.op = "manager_new" =>
        /\ ret.ok => protocols[1] \subseteq ret.enabled
        /\ ret.ok <=> (Len(protocols) = 1 /\ protocols[1] # {})

---------------------------------------------------------------------------
(* The engines' error handling *)

\* C17: an engine's register_service changes its registration state only when the
\* announcement or the daemon registration succeeded: when register_service(s)
\* returns an error, verify_service(s) answers after the call what it answered before.
C17_FailedRegisterKeepsVerify ==
    [][/\ (ret'.op = "ssdp_register_service" /\ ~ret'.ok) =>
              SsdpVerifyService(registered_services', ret'.service)
                  = SsdpVerifyService(registered_services, ret'.service)
       /\ (ret'.op = "mdns_register_service" /\ ~ret'.ok) =>
              MdnsVerifyService(services', ret'.service, now')
                  = MdnsVerifyService(services, ret'.service, now)]_vars


\* C18: when the listener's socket cannot be bound to 0.0.0.0:1900, the start_listener
\* call that started the listener returns an error.
C18_BindFailureIsReturned ==
    [][(/\ ret.op = "start_listener" /\ ret.spawned
        /\ ret'.op = "listener_bind" /\ ~ret'.ok) => ~ret.ok]_vars


\* C19: after the listener task has stopped because recv_from returned an error, a
\* later start_listener starts a new listener task.
C19_RestartAfterRecvError ==
    [][(ret'.op = "start_listener" /\ listener = "recv_error") => listener' = "spawned"]_vars


\* C20: once the listener's shutdown sender is dropped with the engine, the listener
\* task in the end leaves its select loop and terminates, and a terminated task
\* receives no datagram and sends no response.
C20_ShutdownTerminates ==
    /\ (shutdown_tx = "Dropped" /\ listener_handle) ~> (listener \in Ended)
    /\ [][(listener \in Ended) =>
              /\ listener' = listener
              /\ ret'.op # "listener_recv"
              /\ (ret'.op = "arrive" => ~ret'.delivered)]_vars

\* the engine was dropped, the task took the shutdown branch, and a datagram sent
\* afterwards reached no socket
C20_Witness_ArrivedAfterShutdown ==
    /\ shutdown_tx = "Dropped" /\ listener = "shutdown"
    /\ ret.op = "arrive" /\ ~ret.delivered

---------------------------------------------------------------------------
(* The SSDP parser policy *)

LowerLetters ==
    <<"a", "b", "c", "d", "e", "f", "g", "h", "i", "j", "k", "l", "m", "n", "o", "p", "q",
      "r", "s", "t", "u", "v", "w", "x", "y", "z">>

UpperLetters ==
    <<"A", "B", "C", "D", "E", "F", "G", "H", "I", "J", "K", "L", "M", "N", "O", "P", "Q",
      "R", "S", "T", "U", "V", "W", "X", "Y", "Z">>

UpperChar(c) ==
    IF \E i \in DOMAIN LowerLetters : LowerLetters[i] = c
    THEN UpperLetters[CHOOSE i \in DOMAIN LowerLetters : LowerLetters[i] = c]
    ELSE c

\* a header line with its name, the text before the first colon, in capitals
UpperHeaderName(line) ==
    LET i == Find1(line, ":", 1) IN
    [k \in 1..Len(line) |-> IF k < i THEN UpperChar(line[k]) ELSE line[k]]

\* the same datagram with upper-case header names
UpperHeaderNames(text) ==
    LET parts == Split(text, "\n") IN
    Join([k \in 1..Len(parts) |-> UpperHeaderName(parts[k])], "\n")

\* C21: a response whose header names (LOCATION, USN) are written in lower or mixed
\* case is parsed to the same result as the same response with upper-case header names.
C21_HeaderNamesAnyCase ==
    ret.op = "ssdp_discover_services" =>
        \A i \in DOMAIN ret.runs : \A j \in DOMAIN ret.runs[i].datagrams :
            LET d == ret.runs[i].datagrams[j] IN
            ParseServiceFromResponse(d.text, d.addr, SsdpIdBase)
                = ParseServiceFromResponse(UpperHeaderNames(d.text), d.addr, SsdpIdBase)


\* the message has a header of this name, in whatever case it is written
HasHeader(message, name) ==
    \E i \in DOMAIN Lines(message) : StartsWith(UpperHeaderName(Lines(message)[i]), name)

\* C22: the listener sends no response to an M-SEARCH that carries no ST header.
C22_NoStNoResponse ==
    (ret.op = "listener_recv" /\ ~HasHeader(ret.message, <<"S", "T", ":">>)) =>
        ret.sent = <<>>

---------------------------------------------------------------------------
(* The engines' timeouts *)

\* the total timeout of a discover_services call: the caller's, or the engine's
\* default, and for SSDP at most 30 s
TotalTimeout(op, timeout) ==
    IF op = "mdns_discover_services"
    THEN (IF Len(timeout) = 1 THEN timeout[1] ELSE MdnsDefaultTimeout)
    ELSE Min(IF Len(timeout) = 1 THEN timeout[1] ELSE SsdpDefaultTimeout, SsdpMaxTimeout)

\* C23: an engine's discover_services returns no later than its total timeout after
\* it was called, however many service types are requested and whatever arrives.
C23_ReturnsWithinTimeout ==
    ("elapsed" \in DOMAIN ret) => ret.elapsed <= TotalTimeout(ret.op, ret.timeout)

---------------------------------------------------------------------------
(* The ServiceDiscovery front's claims *)

\* what the validation rule asks of a configuration
ValidConfig(config) ==
    /\ Len(config.timeout) = 1 => config.timeout[1] > 0
    /\ config.enable_ipv4 \/ config.enable_ipv6
    /\ config.enabled_protocols # {}

\* C24: DiscoveryConfig::validate returns Ok exactly when the timeout is greater than
\* zero, IPv4 or IPv6 is enabled and a protocol is enabled, and a Configuration error
\* otherwise; ServiceDiscovery::new builds no instance for a config that fails it.
C24_ValidateExact ==
    ret.op = "sd_new" =>
        /\ Validate(ret.config).ok <=> ValidConfig(ret.config)
        /\ ~Validate(ret.config).ok =>
               /\ Validate(ret.config).err = "Configuration"
               /\ ~ret.ok /\ Len(discovery) = 0


C26_RegisteredCacheExact ==
    Len(discovery) = 1 => GetRegisteredServices(discovery[1]) = sdreg

---------------------------------------------------------------------------
(* The claims on the types *)

C28_InfoNewValidates ==
    ret.op = "service_info_new" =>
        /\ (Len(ret.name) = 0 \/ ret.port = 0) => ~ret.res.ok
        /\ ret.res.ok => (Len(ret.res.name) > 0 /\ ret.res.port \in 1..65535)

---------------------------------------------------------------------------
(* The mDNS engine's merge *)

\* the locally registered services of the requested types
LocalOfTypes(types) == {s \in GetLocalServices(services, now) : TypeMatches(types, s)}

\* the entry was resolved from the network for a service registered on this engine
ResolvedFromOwn(entry, types) ==
    /\ entry.id >= NetIdBase
    /\ \E s \in LocalOfTypes(types) :
           entry.name = s.name \o DotLocalDot /\ entry.port = s.port

\* C29: with N services of one type registered on the engine and no other instance of
\* the type on the network, a successful discover_services for that type returns
\* exactly N entries, a service that was also resolved from the network being there once.
C29_RegisteredOnceEach ==
    (/\ ret.op = "mdns_discover_services" /\ ret.ok /\ Len(ret.types) = 1
     /\ \A j \in 1..Len(ret.out) :
            ret.out[j].id >= NetIdBase => ResolvedFromOwn(ret.out[j], ret.types))
        => Len(ret.out) = Cardinality(LocalOfTypes(ret.types))

---------------------------------------------------------------------------
(* The SSDP round trip *)

\* C30: with the listener running and a service s registered, a discover_services
\* for s's service type that returns a non-empty list returns an entry whose name is
\* s.name.
C30_RoundTripKeepsName ==
    (/\ ret.op = "ssdp_discover_services" /\ ret.ok /\ Len(ret.out) > 0
     /\ listener = "listening")
        => \A id \in DOMAIN registered_services :
               registered_services[id].service_type = ret.types[1]
                   => \E j \in 1..Len(ret.out) :
                          ret.out[j].name = registered_services[id].name


\* C40: in every state of a ServiceDiscovery instance, after new and after any number
\* of update_config calls, its configuration passes DiscoveryConfig::validate().
C40_ConfigAlwaysValid ==
    Len(discovery) = 1 => Validate(discovery[1].config).ok


\* C38: stats() reports total_services = local_services + discovered_services and
\* expired_services <= discovered_services, and find_services with an empty filter at
\* the same instant returns total_services - expired_services services.
C38_StatsAddUp ==
    ret.op = "stats"
        => /\ ret.out.total_services = ret.out.local_services + ret.out.discovered_services
           /\ ret.out.expired_services <= ret.out.discovered_services
           /\ Cardinality(FindServices(services, FilterNew, now))
                  = ret.out.total_services - ret.out.expired_services

\* stats is called on a registry that holds a local entry, an expired discovered entry
\* and a discovered entry that is not expired
C38_Witness_MixedRegistry ==
    /\ ret.op = "stats"
    /\ ret.out.local_services > 0
    /\ ret.out.expired_services > 0
    /\ ret.out.discovered_services > ret.out.expired_services


\* the calls that are a discover_services on an engine or on the manager
DiscoverOps ==
    {"ssdp_discover_services", "mdns_discover_services", "manager_discover_services",
     "manager_discover_services_with_protocol"}

\* the local entries of a registry
LocalEntries(svcs) == [k \in {x \in DOMAIN svcs : svcs[x].is_local} |-> svcs[k]]

\* C39: a discover_services call on an engine or on the manager leaves the SSDP
\* registered-services table and the local entries of the mDNS engine's registry as
\* they were, and so every verify_service result.
C39_DiscoverKeepsRegistrations ==
    [][(ret'.op \in DiscoverOps)
           => /\ registered_services' = registered_services
              /\ LocalEntries(services') = LocalEntries(services)
              /\ \A s \in FrameServices :
                     /\ SsdpVerifyService(registered_services', s)
                            = SsdpVerifyService(registered_services, s)
                     /\ MdnsVerifyService(services', s, now')
                            = MdnsVerifyService(services, s, now)]_vars

\* a discover that found a service has returned while a service is registered with
\* each engine
C39_Witness_DiscoverWithRegistrations ==
    /\ ret.op \in DiscoverOps
    /\ ret.ok /\ Len(ret.out) > 0
    /\ registered_services # EmptyMap
    /\ LocalEntries(services) # EmptyMap


\* the response has a line that starts with LOCATION: and a line that starts with USN:
CarriesLocationAndUsn(text) ==
    /\ \E i \in DOMAIN Lines(text) :
           StartsWith(Lines(text)[i], <<"L", "O", "C", "A", "T", "I", "O", "N", ":">>)
    /\ \E i \in DOMAIN Lines(text) : StartsWith(Lines(text)[i], <<"U", "S", "N", ":">>)

\* the datagrams of a list that carry both headers, in the order of the list
RECURSIVE Carrying(_)
Carrying(datagrams) ==
    IF Len(datagrams) = 0 THEN <<>>
    ELSE (IF CarriesLocationAndUsn(datagrams[1].text) THEN <<datagrams[1]>> ELSE <<>>)
             \o Carrying(Tail(datagrams))

\* C37: the list returned by SSDP discover_services for one search target is, in
\* arrival order, exactly the services decoded from the received datagrams that carry
\* both LOCATION and USN; a datagram that does not parse is skipped and the datagrams
\* after it are still read.
C37_ArrivalOrderSkippingFailures ==
    (ret.op = "ssdp_discover_services" /\ Len(ret.types) = 1 /\ ret.runs[1].ok)
        => LET carrying == Carrying(ret.runs[1].datagrams) IN
           /\ ret.ok
           /\ Len(ret.out) = Len(carrying)
           /\ \A k \in 1..Len(carrying) :
                  <<ret.out[k]>> = ParseServiceFromResponse(carrying[k].text, carrying[k].addr,
                                                            ret.out[k].id)

\* a search met a response, then a datagram that does not parse, then the response of
\* another device, and both services were returned
C37_Witness_SkippedBetweenTwo ==
    /\ ret.op = "ssdp_discover_services" /\ Len(ret.types) = 1 /\ ret.ok
    /\ Len(ret.out) = 2
    /\ ret.out[1].name # ret.out[2].name
    /\ \E j \in 2..(Len(ret.runs[1].datagrams) - 1) :
           ~CarriesLocationAndUsn(ret.runs[1].datagrams[j].text)


\* C36: the M-SEARCH request sent by SSDP discover_services carries
\* MX = min(timeout in whole seconds, 5), the timeout being the caller's or the 10 s
\* default, capped at 30 s.
C36_MxIsMinOfTimeoutAndFive ==
    (ret.op = "ssdp_discover_services" /\ "requests" \in DOMAIN ret)
        => \A request \in ret.requests :
               LastHeader(Lines(request), <<"M", "X", ":">>)
                   = <<FormatNat(Min(AsSecs(TotalTimeout(ret.op, ret.timeout)), 5))>>


\* C35: mDNS daemon creation makes at most three attempts, returns the daemon of the
\* first attempt that succeeds without making further attempts, waits
\* 100 ms x attempt-number after a failed first or second attempt, and returns an Mdns
\* error iff all three attempts fail.
C35_DaemonRetry ==
    ret.op = "mdns_new"
        => /\ ret.attempts \in 1..3
           /\ \A k \in 1..(ret.attempts - 1) : ~ret.outcomes[k]
           /\ ret.ok <=> ret.outcomes[ret.attempts]
           /\ ~ret.ok <=> (ret.attempts = 3 /\ \A k \in 1..3 : ~ret.outcomes[k])
           /\ ~ret.ok => ret.err = "Mdns"
           /\ ret.sleeps = [k \in 1..(ret.attempts - 1) |-> 100 * k]

\* the daemon was created at the third attempt, after two failures
C35_Witness_ThirdAttempt ==
    ret.op = "mdns_new" /\ ret.ok /\ ret.attempts = 3 /\ Len(ret.sleeps) = 2


\* C33: the manager's discovery over all engines runs the engines' discover calls
\* concurrently: once an engine's discover has waited for its answers and returned
\* them, no engine's discover is still to begin.
C33_EnginesDiscoverConcurrently ==
    (Len(fanout) = 1 /\ \E k \in DOMAIN fanout[1].results : fanout[1].results[k].ok)
        => Len(fanout[1].pending) = 0


---------------------------------------------------------------------------
(* The SSDP engine shared by tasks *)

\* C31: concurrent register_service calls for distinct services on one shared SSDP
\* engine all complete, and every service whose register returned Ok is in the
\* registered-services table afterwards (verify_service returns true for it).
C31_ConcurrentRegistersComplete ==
    /\ [](\A i \in 1..NTasks :
              (tasks[i].pc = "done" /\ tasks[i].op = "register" /\ tasks[i].ok)
                  => SsdpVerifyService(registered_services, TaskServices[i]))
    /\ \A i \in 1..NTasks : (tasks[i].pc = "waiting") ~> (tasks[i].pc = "done")

\* every task has registered its service and got Ok
C31_Witness_AllRegistered ==
    \A i \in 1..NTasks : tasks[i].pc = "done" /\ tasks[i].op = "register" /\ tasks[i].ok

\* C32: no task holds the lock of the registered-services table while it is suspended
\* on a network send: register_service and unregister_service have released it when
\* they await the NOTIFY send, and the listener when it awaits a response send.
C32_NoLockAcrossSend ==
    /\ \A i \in 1..NTasks : tasks[i].pc = "sending" => lock.writer # i
    /\ responder.pc = "sending" => "listener" \notin lock.readers

\* C34: the responses the listener sends for one M-SEARCH come from one snapshot of
\* the registered-services table: the table does not change between the first and the
\* last response, and the responders are the matching services of that table.
C34_ResponsesFromOneSnapshot ==
    /\ responder.pc \in {"responding", "sending"} => registered_services = responder.snapshot
    /\ ret.op = "listener_responded"
           => /\ {ret.sent[k] : k \in DOMAIN ret.sent}
                     = {id \in DOMAIN ret.snapshot :
                            ServiceMatchesSearch(ret.search_target, ret.snapshot[id])}
              /\ Len(ret.sent) = Cardinality({ret.sent[k] : k \in DOMAIN ret.sent})

\* the listener has answered an M-SEARCH that one registered service matches and
\* another does not, while a task was waiting to write the table
C34_Witness_AnsweredWhileTaskWaits ==
    /\ ret.op = "listener_responded"
    /\ Len(ret.sent) > 0
    /\ Cardinality(DOMAIN ret.snapshot) > Len(ret.sent)
    /\ \E i \in 1..NTasks : tasks[i].pc = "waiting"

=============================================================================
